---- MODULE Spec2Model ----
(***************************************************************************)
(* mneme: the command-execution core of an event-sourcing library.         *)
(*                                                                         *)
(* Two revisions of the executor are modelled:                             *)
(*   - the retrying executor (read, fold, handle, version-checked publish, *)
(*     back-off, retry) running against the Kurrent adapter;               *)
(*   - the query-based executor of src/src/lib.rs (build_state over a      *)
(*     multi-stream query, handle, publish, handle_error).                 *)
(* `revision` says which of the two a behaviour runs.                      *)
(***************************************************************************)
EXTENDS Integers, Sequences, FiniteSets, TLC

(***************************************************************************)
(* Bounds of the model.                                                    *)
(***************************************************************************)
\* appends the external writer may make while one invocation runs
MaxWrites == 4
\* appends the external writer may make while two invocations run
DuelWrites == 0
\* largest max_retries handed to ExecuteConfig::with_max_retries
MaxRetriesArg == 3
\* longest envelope sequence the in-memory store of lib.rs is preloaded with
MaxEnvelopes == 3

(***************************************************************************)
(* Program constants.                                                      *)
(***************************************************************************)
MAX_RETRIES_LIMIT == 10
MIN_DELAY_MS == 50
MAX_DELAY_MS == 5000

\* Option<T>: None is the empty sequence, Some(v) the one-element sequence.
None == <<>>
Some(v) == <<v>>
IsSome(o) == o # <<>>
Unwrap(o) == o[1]

Procs == {1, 2}

\* The single stream every invocation of the model targets (EventStreamId).
StreamU == "u"

(***************************************************************************)
(* Events (tests/integration_tests.rs TestEvent, and the unit event of     *)
(* event.rs).  The id field is the stream's id and is left out.            *)
(***************************************************************************)
Unit == [type |-> "Unit", value |-> 0]
One == [type |-> "One", value |-> 0]
Two == [type |-> "Two", value |-> 0]
FooHappened(v) == [type |-> "FooHappened", value |-> v]
BarHappened(v) == [type |-> "BarHappened", value |-> v]
BazHappened(v) == [type |-> "BazHappened", value |-> v]
\* a user event whose Serialize implementation fails
Unencodable == [type |-> "Unencodable", value |-> 0]

TestEventTags == {"One", "Two", "FooHappened", "BarHappened", "BazHappened"}

\* Event::event_type: the discriminator stored beside the payload
event_type(e) ==
  IF e.type = "Unit" THEN <<"None">> ELSE <<"TestEvent", e.type>>

\* EventData::json(&event_type, &event): the JSON payload is null for the unit
\* event and {"Tag": {.., "value": v}} for a TestEvent; Err when Serialize fails
EventData_json(e) ==
  IF e.type = "Unencodable" THEN [ok |-> FALSE]
  ELSE [ok |-> TRUE,
        data |-> [event_type |-> event_type(e),
                  json |-> IF e.type = "Unit" THEN <<>> ELSE <<e.type, e.value>>]]

\* RecordedEvent::as_json::<E>: parses the payload as E ("Unit" or "TestEvent")
as_json(E, data) ==
  IF E = "Unit"
    THEN IF data.json = <<>> THEN [ok |-> TRUE, event |-> Unit] ELSE [ok |-> FALSE]
    ELSE IF data.json # <<>> /\ data.json[1] \in TestEventTags
           THEN [ok |-> TRUE, event |-> [type |-> data.json[1], value |-> data.json[2]]]
           ELSE [ok |-> FALSE]


(***************************************************************************)
(* Stream versions and errors (event_store.rs, error.rs).                  *)
(***************************************************************************)
\* EventStreamVersion::new / EventStreamVersion::value
EventStreamVersion_new(version) == version
EventStreamVersion_value(v) == v

\* EventStreamId's Display: the canonical string of the id
EventStreamId_to_string(id) == id

Ok == [ok |-> TRUE]
Err(e) == [ok |-> FALSE, error |-> e]

EventStoreStreamNotFound(id) == [kind |-> "EventStoreStreamNotFound", stream |-> id]
EventStoreVersionMismatch(id, expected, actual, source) ==
  [kind |-> "EventStoreVersionMismatch", stream |-> id,
   expected |-> expected, actual |-> actual, source |-> source]
EventStoreOther(source) == [kind |-> "EventStoreOther", source |-> source]
EventDeserializationError == [kind |-> "EventDeserializationError"]
CommandFailed(message, attempt, max_attempts) ==
  [kind |-> "CommandFailed", message |-> message, attempt |-> attempt,
   max_attempts |-> max_attempts, source |-> message]
MaxRetriesExceeded(stream, max_retries) ==
  [kind |-> "MaxRetriesExceeded", stream |-> stream, max_retries |-> max_retries]
InvalidConfig(message, parameter) ==
  [kind |-> "InvalidConfig", message |-> message, parameter |-> parameter]

(***************************************************************************)
(* Execute configuration (config.rs, delay.rs).                            *)
(***************************************************************************)
RetryDelay_new(base_delay_ms, max_delay_ms) ==
  [base_delay_ms |-> base_delay_ms, max_delay_ms |-> max_delay_ms]

RetryDelay_default == [base_delay_ms |-> 100, max_delay_ms |-> 30000]

ExecuteConfig_default == [max_retries |-> 3, retry_delay |-> RetryDelay_default]

with_max_retries(self, max_retries) ==
  IF max_retries = 0
    THEN Err(InvalidConfig("max_retries cannot be 0", Some("max_retries")))
  ELSE IF max_retries > MAX_RETRIES_LIMIT
    THEN Err(InvalidConfig("max_retries cannot exceed limit", Some("max_retries")))
  ELSE [ok |-> TRUE, config |-> [self EXCEPT !.max_retries = max_retries]]

\* RetryDelay::base_delay_ms, RetryDelay::max_delay_ms
RetryDelay_base_delay_ms(self) == self.base_delay_ms
RetryDelay_max_delay_ms(self) == self.max_delay_ms

(***************************************************************************)
(* u64 arithmetic of delay.rs, on four 16-bit limbs (least significant    *)
(* first), so that the overflow of 64 bits is the code's.                  *)
(***************************************************************************)
U64_BITS == 64
LIMB_BITS == 16
LIMB == 65536

\* a number below 2^31 as a u64
u64_from(n) == [value |-> <<n % LIMB, (n \div LIMB) % LIMB, 0, 0>>, overflow |-> FALSE]

\* x * 2^n in 64 bits: the wrapped value, and whether the product overflowed.
\* The product is x moved up by n \div 16 limbs and n % 16 bits; what leaves
\* the fourth limb is lost.
u64_mul_pow2(x, n) ==
  LET f == 2 ^ (n % LIMB_BITS)
      q == n \div LIMB_BITS
      limb(i) == IF i \in 1..4 THEN x.value[i] ELSE 0
      moved == [i \in 1..5 |-> ((limb(i) * f) % LIMB) + ((limb(i - 1) * f) \div LIMB)]
  IN  [value |-> [i \in 1..4 |-> IF i - q >= 1 THEN moved[i - q] ELSE 0],
       overflow |-> x.overflow \/ \E j \in 1..5 : j + q > 4 /\ moved[j] # 0]

\* u64::min(x, m) for m below 2^31
u64_min(x, m) ==
  IF x[3] = 0 /\ x[4] = 0 /\ x[2] < LIMB \div 2 /\ x[1] + x[2] * LIMB <= m
    THEN x[1] + x[2] * LIMB
    ELSE m

\* gen_range(0..=capped_delay): the least, the middle or the greatest value
Jitters == {"least", "middle", "greatest"}
gen_range(capped_delay, jitter) ==
  CASE jitter = "least" -> 0
    [] jitter = "middle" -> capped_delay \div 2
    [] jitter = "greatest" -> capped_delay

\* RetryDelay::calculate_delay: base_delay_ms * 2u64.pow(retry_count), capped
\* at max_delay_ms, then the jitter.  2u64.pow overflows from retry_count 64
\* on and the product when it does not fit 64 bits: a build with overflow
\* checks (debug) panics, one without (release) goes on with the wrapped value.
calculate_delay(self, retry_count, overflow_checks, jitter) ==
  LET exp_delay == u64_mul_pow2(u64_from(RetryDelay_base_delay_ms(self)), retry_count)
      overflow == retry_count >= U64_BITS \/ exp_delay.overflow
      capped_delay == u64_min(exp_delay.value, RetryDelay_max_delay_ms(self))
  IN  IF overflow /\ overflow_checks
        THEN [panic |-> TRUE, wrapped |-> FALSE, delay |-> 0]
        ELSE [panic |-> FALSE, wrapped |-> overflow,
              delay |-> gen_range(capped_delay, jitter)]

\* with_base_delay refusing the least delay allowed
with_base_delay_exclusive_min(self, delay_ms) ==
  IF delay_ms = 0
    THEN Err(InvalidConfig("base_retry_delay_ms cannot be 0", Some("base_retry_delay_ms")))
  ELSE IF delay_ms <= MIN_DELAY_MS
    THEN Err(InvalidConfig("base_retry_delay_ms must be at least min",
                           Some("base_retry_delay_ms")))
  ELSE IF delay_ms > MAX_DELAY_MS
    THEN Err(InvalidConfig("base_retry_delay_ms cannot exceed max",
                           Some("base_retry_delay_ms")))
  ELSE [ok |-> TRUE,
        config |-> [self EXCEPT !.retry_delay =
                      RetryDelay_new(delay_ms, RetryDelay_max_delay_ms(self.retry_delay))]]

\* ExecuteConfig::with_base_delay: the new base delay, the max delay kept
with_base_delay(self, delay_ms) ==
  IF delay_ms = 0
    THEN Err(InvalidConfig("base_retry_delay_ms cannot be 0", Some("base_retry_delay_ms")))
  ELSE IF delay_ms < MIN_DELAY_MS
    THEN Err(InvalidConfig("base_retry_delay_ms must be at least min",
                           Some("base_retry_delay_ms")))
  ELSE IF delay_ms > MAX_DELAY_MS
    THEN Err(InvalidConfig("base_retry_delay_ms cannot exceed max",
                           Some("base_retry_delay_ms")))
  ELSE [ok |-> TRUE,
        config |-> [self EXCEPT !.retry_delay =
                      RetryDelay_new(delay_ms, RetryDelay_max_delay_ms(self.retry_delay))]]

\* with_max_delay building the delay from the default base delay
with_max_delay_from_default(self, max_delay_ms) ==
  IF max_delay_ms < RetryDelay_base_delay_ms(self.retry_delay)
    THEN Err(InvalidConfig("max_delay_ms cannot be less than base_delay_ms",
                           Some("max_delay_ms")))
  ELSE [ok |-> TRUE,
        config |-> [self EXCEPT !.retry_delay =
                      RetryDelay_new(RetryDelay_base_delay_ms(RetryDelay_default),
                                     max_delay_ms)]]

\* ExecuteConfig::with_max_delay: checked against the base delay of self
with_max_delay(self, max_delay_ms) ==
  IF max_delay_ms < RetryDelay_base_delay_ms(self.retry_delay)
    THEN Err(InvalidConfig("max_delay_ms cannot be less than base_delay_ms",
                           Some("max_delay_ms")))
  ELSE [ok |-> TRUE,
        config |-> [self EXCEPT !.retry_delay =
                      RetryDelay_new(RetryDelay_base_delay_ms(self.retry_delay),
                                     max_delay_ms)]]

\* ExecuteConfig::retry_delay
ExecuteConfig_retry_delay(self) == self.retry_delay

\* the getter taking max_retries for the number of attempts
ExecuteConfig_max_retries_as_attempts(self) == self.max_retries + 1

\* ExecuteConfig::max_retries, the getter the executor reads the budget with
ExecuteConfig_max_retries(self) == self.max_retries

\* the configurations a caller can hand to execute in the model
Configs ==
  {with_max_retries(ExecuteConfig_default, n).config :
     n \in {m \in 0..MaxRetriesArg : with_max_retries(ExecuteConfig_default, m).ok}}

(***************************************************************************)
(* Commands and aggregate state (command.rs; the test commands of          *)
(* tests/integration_tests.rs).                                            *)
(***************************************************************************)
Kinds ==
  {"Noop", "Reject", "EventProducing", "Stateful", "Tally", "Limited", "Unencodable"}

\* the event type E a command kind is a Command<E> of
EventTypeOf(kind) == IF kind \in {"Noop", "Reject"} THEN "Unit" ELSE "TestEvent"

\* impl AggregateState<E> for (): apply returns unit
UnitState == [unit |-> TRUE]
UnitState_apply(self, event) == UnitState

\* StatefulCommandState { foo: None, bar: None }
StatefulCommandState_empty == [foo |-> None, bar |-> None]

StatefulCommandState_apply(self, event) ==
  CASE event.type = "FooHappened" -> [self EXCEPT !.foo = Some(event.value)]
    [] event.type = "BarHappened" -> [self EXCEPT !.bar = Some(event.value)]
    [] OTHER -> self

\* a user's implementation of the trait AggregateState<TestEvent>: the number
\* of events applied so far (a tally, as a balance or a stock count is)
TallyState_empty == [count |-> 0]
TallyState_apply(self, event) == [self EXCEPT !.count = @ + 1]

AggregateState_apply(kind, self, event) ==
  CASE kind = "Stateful" -> StatefulCommandState_apply(self, event)
    [] kind \in {"Tally", "Limited"} -> TallyState_apply(self, event)
    [] OTHER -> UnitState_apply(self, event)

EmptyState(kind) ==
  CASE kind = "Stateful" -> StatefulCommandState_empty
    [] kind \in {"Tally", "Limited"} -> TallyState_empty
    [] OTHER -> UnitState

\* XxxCommand::new: the command as the caller hands it to execute
NewCommand(kind) == [kind |-> kind, state |-> EmptyState(kind)]

Command_get_state(self) == self.state
Command_set_state(self, state) == [self EXCEPT !.state = state]

\* Command::apply dropping what set_state returns
Command_apply_dropped(self, event) == self

\* Command::apply applying the event twice
Command_apply_twice(self, event) ==
  Command_set_state(self,
    AggregateState_apply(self.kind,
      AggregateState_apply(self.kind, Command_get_state(self), event), event))

\* the receiver of Command::apply after the call: the body reads it through
\* get_state and set_state, which take &self, and assigns nothing
Command_apply_self(self, event) == self

\* Command::apply: set_state(get_state().apply(event)), returned as a new command
Command_apply(self, event) ==
  Command_set_state(self, AggregateState_apply(self.kind, Command_get_state(self), event))

\* Command::mark_retry, the default: a clone of the command
Command_mark_retry(self) == self

\* the tally above which a "Limited" command rejects
TallyLimit == 3

\* Command::handle of the test commands: Ok(events), Err(user error), or a panic
\* (StatefulCommand unwraps foo and bar); "Limited" is a user's command that
\* rejects once the tally has reached TallyLimit
Command_handle(self) ==
  CASE self.kind = "Noop" -> [outcome |-> "Ok", events |-> <<>>]
    [] self.kind = "Reject" -> [outcome |-> "Err", message |-> "Command failed: no"]
    [] self.kind = "EventProducing" -> [outcome |-> "Ok", events |-> <<One, Two>>]
    [] self.kind = "Unencodable" -> [outcome |-> "Ok", events |-> <<One, Unencodable>>]
    [] self.kind = "Tally" ->
         [outcome |-> "Ok", events |-> <<BazHappened(self.state.count)>>]
    [] self.kind = "Limited" ->
         IF self.state.count >= TallyLimit
           THEN [outcome |-> "Err", message |-> "Command failed: full"]
           ELSE [outcome |-> "Ok", events |-> <<BazHappened(self.state.count)>>]
    [] self.kind = "Stateful" ->
         IF IsSome(self.state.foo) /\ IsSome(self.state.bar)
           THEN [outcome |-> "Ok",
                 events |-> <<BazHappened(Unwrap(self.state.foo) + Unwrap(self.state.bar))>>]
           ELSE [outcome |-> "Panic"]

\* fold(apply, state, events)
RECURSIVE Fold(_, _, _)
Fold(kind, state, events) ==
  IF events = <<>> THEN state
  ELSE Fold(kind, AggregateState_apply(kind, state, Head(events)), Tail(events))


(***************************************************************************)
(* The append-only log behind the adapter (the eventstore client): a       *)
(* stream is the sequence of its recorded events, the i-th of which has    *)
(* revision i - 1; a stream without events does not exist.                 *)
(***************************************************************************)
Exact(n) == [mode |-> "Exact", revision |-> n]
AnyVersion == [mode |-> "Any"]
NoStream == [mode |-> "NoStream"]
Current(n) == [mode |-> "Current", revision |-> n]

\* the log's CurrentRevision of a stream
CurrentRevision(s) == IF s = <<>> THEN NoStream ELSE Current(Len(s) - 1)

\* whether the log accepts an append made with the given ExpectedRevision
Accepts(s, expected) ==
  CASE expected.mode = "Any" -> TRUE
    [] expected.mode = "NoStream" -> s = <<>>
    [] expected.mode = "Exact" -> s # <<>> /\ Len(s) - 1 = expected.revision

\* the faults a call to the log may end in instead of its answer
Faults == {"none", "Unavailable", "ResourceNotFound"}

\* Client::append_to_stream writing at the expected revision even when the
\* log holds later events
Client_append_to_stream_overwriting(s, expected, datas, fault) ==
  IF fault \in {"Unavailable", "ResourceNotFound"}
    THEN [answer |-> [kind |-> fault], stream |-> s]
  ELSE IF fault = "none" /\ Accepts(s, expected)
    THEN [answer |-> [kind |-> "Ok"], stream |-> s \o datas]
  ELSE IF fault = "none" /\ expected.mode = "Exact" /\ expected.revision < Len(s)
    THEN [answer |-> [kind |-> "Ok"],
          stream |-> SubSeq(s, 1, expected.revision + 1) \o datas]
    ELSE [answer |-> [kind |-> "WrongExpectedVersion",
                      current |-> CurrentRevision(s), expected |-> expected],
          stream |-> s]

\* Client::append_to_stream: the answer, and the stream afterwards.  The fault
\* "Conflict" is a store that answers WrongExpectedVersion whatever it holds.
Client_append_to_stream(s, expected, datas, fault) ==
  IF fault \in {"Unavailable", "ResourceNotFound"}
    THEN [answer |-> [kind |-> fault], stream |-> s]
  ELSE IF fault = "none" /\ Accepts(s, expected)
    THEN [answer |-> [kind |-> "Ok"], stream |-> s \o datas]
    ELSE [answer |-> [kind |-> "WrongExpectedVersion",
                      current |-> CurrentRevision(s), expected |-> expected],
          stream |-> s]

\* Client::read_stream: a missing stream may be reported at the call already
Client_read_stream(s, fault) ==
  IF fault = "Unavailable" THEN [kind |-> "Unavailable"]
  ELSE IF fault = "ResourceNotFound" /\ s = <<>> THEN [kind |-> "ResourceNotFound"]
  ELSE [kind |-> "Ok"]

\* ReadStream::next at position cursor of the stream as it now is
ReadStream_next(s, cursor, fault) ==
  IF fault = "Unavailable" THEN [kind |-> "Unavailable"]
  ELSE IF cursor < Len(s)
    THEN [kind |-> "Event", revision |-> cursor, data |-> s[cursor + 1]]
  ELSE IF s = <<>> THEN [kind |-> "ResourceNotFound"]
  ELSE [kind |-> "End"]

(***************************************************************************)
(* The Kurrent adapter (kurrent_adapter.rs, kurrent_adapter/stream.rs).    *)
(***************************************************************************)
\* extract_revision without the Exact arm
extract_revision_without_exact(expected) == None

\* extract_revision: Exact(v) is Some(v), every other ExpectedRevision is None
extract_revision(expected) ==
  IF expected.mode = "Exact" THEN Some(EventStreamVersion_new(expected.revision)) ELSE None

extract_current_revision(current) ==
  IF current.mode = "Current" THEN Some(EventStreamVersion_new(current.revision)) ELSE None

\* the map_err of Kurrent::append_to_stream taking a missing stream for a
\* version mismatch
append_to_stream_map_err_not_found_as_mismatch(stream_id, source) ==
  CASE source.kind \in {"ResourceNotFound", "WrongExpectedVersion"} ->
         EventStoreVersionMismatch(stream_id, None, None, source.kind)
    [] OTHER -> EventStoreOther(source.kind)

\* the map_err of Kurrent::append_to_stream
append_to_stream_map_err(stream_id, source) ==
  CASE source.kind = "ResourceNotFound" -> EventStoreStreamNotFound(stream_id)
    [] source.kind = "WrongExpectedVersion" ->
         EventStoreVersionMismatch(stream_id, extract_revision(source.expected),
                                   extract_current_revision(source.current), source.kind)
    [] OTHER -> EventStoreOther(source.kind)

\* Kurrent::append_to_stream: the result handed back, and the stream afterwards
Kurrent_append_to_stream(s, stream_id, options, datas, fault) ==
  LET r == Client_append_to_stream(s, options, datas, fault)
  IN  [result |-> IF r.answer.kind = "Ok" THEN Ok
                  ELSE Err(append_to_stream_map_err(stream_id, r.answer)),
       answer |-> r.answer.kind,
       stream |-> r.stream]

\* the batch encoded without the events that cannot be encoded
EncodeAll_skipping_failures(events) ==
  LET RECURSIVE kept(_)
      kept(evs) ==
        IF evs = <<>> THEN <<>>
        ELSE IF EventData_json(Head(evs)).ok
          THEN <<EventData_json(Head(evs)).data>> \o kept(Tail(evs))
          ELSE kept(Tail(evs))
  IN  [ok |-> TRUE, datas |-> kept(events)]

\* the batch encoded without its last event
EncodeAll_dropping_last(events) ==
  IF \E i \in 1..Len(events) : ~EventData_json(events[i]).ok
    THEN Err(EventDeserializationError)
    ELSE [ok |-> TRUE,
          datas |-> [i \in 1..(Len(events) - 1) |-> EventData_json(events[i]).data]]

\* the events of a batch encoded in order; collect::<Result<_, _>> stops at the
\* first failure
EncodeAll(events) ==
  IF \E i \in 1..Len(events) : ~EventData_json(events[i]).ok
    THEN Err(EventDeserializationError)
    ELSE [ok |-> TRUE, datas |-> [i \in 1..Len(events) |-> EventData_json(events[i]).data]]

\* the mapping asking for no stream when no version was observed
publish_expected_revision_no_stream(expected_version) ==
  IF IsSome(expected_version)
    THEN Exact(EventStreamVersion_value(Unwrap(expected_version)))
    ELSE NoStream

\* the ExpectedRevision Kurrent::publish asks for
publish_expected_revision(expected_version) ==
  IF IsSome(expected_version)
    THEN Exact(EventStreamVersion_value(Unwrap(expected_version)))
    ELSE AnyVersion

\* Kurrent::publish
Kurrent_publish(s, stream_id, events, expected_version, fault) ==
  LET enc == EncodeAll(events)
  IN  IF ~enc.ok THEN [result |-> enc, answer |-> "NotSent", stream |-> s]
      ELSE Kurrent_append_to_stream(s, stream_id,
             publish_expected_revision(expected_version), enc.datas, fault)

\* Kurrent::read_stream: Ok(EventStream) or the mapped error
Kurrent_read_stream(stream_id, answer) ==
  CASE answer.kind = "Ok" -> Ok
    [] answer.kind = "ResourceNotFound" -> Err(EventStoreStreamNotFound(stream_id))
    [] OTHER -> Err(EventStoreOther(answer.kind))

\* EventStream::next taking the version one past the event's revision
EventStream_next_off_by_one(E, answer) ==
  CASE answer.kind = "ResourceNotFound" -> [ok |-> TRUE, item |-> None]
    [] answer.kind = "End" -> [ok |-> TRUE, item |-> None]
    [] answer.kind = "Event" ->
         LET parsed == as_json(E, answer.data)
         IN  IF parsed.ok
               THEN [ok |-> TRUE,
                     item |-> Some([event |-> parsed.event,
                                    version |-> EventStreamVersion_new(answer.revision + 1)])]
               ELSE Err(EventDeserializationError)
    [] OTHER -> Err(EventStoreOther(answer.kind))

\* EventStream::next without the or_else: a missing stream is an error
EventStream_next_not_found_fails(E, answer) ==
  CASE answer.kind = "ResourceNotFound" -> Err(EventStoreStreamNotFound(StreamU))
    [] answer.kind = "End" -> [ok |-> TRUE, item |-> None]
    [] answer.kind = "Event" ->
         LET parsed == as_json(E, answer.data)
         IN  IF parsed.ok
               THEN [ok |-> TRUE,
                     item |-> Some([event |-> parsed.event,
                                    version |-> EventStreamVersion_new(answer.revision)])]
               ELSE Err(EventDeserializationError)
    [] OTHER -> Err(EventStoreOther(answer.kind))

\* EventStream::next whose or_else takes every error of the read for the end
EventStream_next_swallowing_errors(E, answer) ==
  CASE answer.kind = "Event" ->
         LET parsed == as_json(E, answer.data)
         IN  IF parsed.ok
               THEN [ok |-> TRUE,
                     item |-> Some([event |-> parsed.event,
                                    version |-> EventStreamVersion_new(answer.revision)])]
               ELSE Err(EventDeserializationError)
    [] OTHER -> [ok |-> TRUE, item |-> None]

\* EventStream::next: Ok(None), Ok(Some((event, version))) or an error
EventStream_next(E, answer) ==
  CASE answer.kind = "ResourceNotFound" -> [ok |-> TRUE, item |-> None]
    [] answer.kind = "End" -> [ok |-> TRUE, item |-> None]
    [] answer.kind = "Event" ->
         LET parsed == as_json(E, answer.data)
         IN  IF parsed.ok
               THEN [ok |-> TRUE,
                     item |-> Some([event |-> parsed.event,
                                    version |-> EventStreamVersion_new(answer.revision)])]
               ELSE Err(EventDeserializationError)
    [] OTHER -> Err(EventStoreOther(answer.kind))

\* EventStreamWriter::append with any_version(): the external writer's append
EventStreamWriter_append(s, events) ==
  LET enc == EncodeAll(events)
  IN  IF ~enc.ok THEN s ELSE Client_append_to_stream(s, AnyVersion, enc.datas, "none").stream


(***************************************************************************)
(* State.                                                                  *)
(***************************************************************************)
VARIABLES
  revision,          \* "retry": the retrying executor; "query": lib.rs
  stream,            \* the recorded events of stream u, in append order
  writes,            \* appends the external writer has made
  cfg,               \* the ExecuteConfig handed to every invocation
  pc,                \* per invocation: Start, Folding, Handling, Publishing, Waiting, Marking, Done
                     \* (Absent: the invocation is never made)
  retries,           \* per invocation: the retry counter r
  command,           \* per invocation: the current command value
  expected_version,  \* per invocation: Option<EventStreamVersion>
  cursor,            \* per invocation: events pulled from the open read
  events,            \* per invocation: what handle produced on this attempt
  result,            \* per invocation: what execute returned, once Done
  attempts,          \* history: attempts begun (reads started)
  sleeps,            \* history: back-off sleeps taken
  marks,             \* history: calls of Command::mark_retry
  handled,           \* history: how handle ended on this attempt ("no" before it ran)
  readLog,           \* history: (event, revision) pairs consumed by this attempt's fold
  pubLog,            \* history: one entry per publish call
  lastAnswer,        \* history: the log's answer to the invocation's last call
  foreign,           \* history: <<pc, attempt>> of the invocation at each append by another writer
  H0,                \* history: the stream when the invocation first called read_stream
  lib                \* lib.rs: the store, the command and the position of its execute

vars == <<revision, stream, writes, cfg, pc, retries, command, expected_version, cursor,
          events, result, attempts, sleeps, marks, handled, readLog, pubLog,
          lastAnswer, foreign, H0, lib>>

local == <<pc, retries, command, expected_version, cursor, events, result>>
history == <<attempts, sleeps, marks, handled, readLog, pubLog, lastAnswer, H0>>

\* the events the external writer appends, one per append
WriterEvents == {FooHappened(2)}

\* the histories the stream holds when the invocations start: none, the one the
\* tests preload for a unit-event command, the one they preload for StatefulCommand
Preloads ==
  {<<>>,
   EventStreamWriter_append(<<>>, <<Unit>>),
   EventStreamWriter_append(<<>>, <<FooHappened(1), BarHappened(1)>>)}

\* the command kinds each invocation is started with
KindsOf(p) == IF p = 1 THEN Kinds ELSE {"EventProducing"}

\* lib while the retrying executor is the one that runs
LibIdle == [pc |-> "Idle"]

NotStarted == [ok |-> FALSE, error |-> [kind |-> "Running"]]
Panicked == [ok |-> FALSE, error |-> [kind |-> "Panic"]]
\* the invocation was cancelled: its caller has no result
Cancelled == [ok |-> FALSE, error |-> [kind |-> "Cancelled"]]

InitRetry ==
  /\ revision = "retry"
  /\ stream \in Preloads
  /\ writes = 0
  /\ cfg \in Configs
  /\ \E duel \in BOOLEAN :
       pc = [p \in Procs |-> IF p = 1 \/ duel THEN "Start" ELSE "Absent"]
  /\ retries = [p \in Procs |-> 0]
  /\ \E kinds \in {f \in [Procs -> Kinds] : \A p \in Procs : f[p] \in KindsOf(p)} :
       command = [p \in Procs |-> NewCommand(kinds[p])]
  /\ expected_version = [p \in Procs |-> None]
  /\ cursor = [p \in Procs |-> 0]
  /\ events = [p \in Procs |-> <<>>]
  /\ result = [p \in Procs |-> NotStarted]
  /\ attempts = [p \in Procs |-> 0]
  /\ sleeps = [p \in Procs |-> 0]
  /\ marks = [p \in Procs |-> 0]
  /\ handled = [p \in Procs |-> "no"]
  /\ readLog = [p \in Procs |-> <<>>]
  /\ pubLog = [p \in Procs |-> <<>>]
  /\ lastAnswer = [p \in Procs |-> [op |-> "none", kind |-> "none"]]
  /\ foreign = [p \in Procs |-> <<>>]
  /\ H0 = [p \in Procs |-> <<>>]
  /\ lib = LibIdle

\* foreign after an append by `writer` (an invocation, or 0 for the external
\* writer) was accepted: every other invocation that has begun notes where it was
ForeignAfter(writer) ==
  [p \in Procs |->
     IF p # writer /\ attempts[p] > 0
       THEN Append(foreign[p], <<pc[p], attempts[p]>>)
       ELSE foreign[p]]

(***************************************************************************)
(* The retrying executor: execute(command, event_store, config).           *)
(***************************************************************************)
\* step 1 left out
execute_budget_never_spent(r, config) == FALSE

\* step 1 with the budget spent one retry early
execute_budget_spent_at_limit(r, config) == r >= ExecuteConfig_max_retries(config)

\* step 1: the retry budget is spent
execute_budget_spent(r, config) == r > ExecuteConfig_max_retries(config)

\* step 3 calling handle as soon as the read is open
execute_on_read_without_drain(r) ==
  IF r.ok THEN "Handling"
  ELSE IF r.error.kind = "EventStoreStreamNotFound" THEN "Handling"
  ELSE "Fail"

\* step 3: what a read_stream result leads to
execute_on_read(r) ==
  IF r.ok THEN "Folding"
  ELSE IF r.error.kind = "EventStoreStreamNotFound" THEN "Handling"
  ELSE "Fail"

\* steps 4 and 5 without the return on an empty event list
execute_on_handle_always_publishing(h) ==
  CASE h.outcome = "Err" -> "Fail"
    [] h.outcome = "Panic" -> "Panic"
    [] h.outcome = "Ok" -> "Publishing"

\* steps 4 and 5: what handle's outcome leads to
execute_on_handle(h) ==
  CASE h.outcome = "Err" -> "Fail"
    [] h.outcome = "Panic" -> "Panic"
    [] h.outcome = "Ok" -> IF h.events = <<>> THEN "Done" ELSE "Publishing"

\* the attempt reported as the retry counter itself
execute_attempt_number_zero_based(r) == r

\* step 4: the attempt a CommandFailed reports, counted from 1
execute_attempt_number(r) == r + 1

\* step 6: what a publish result leads to
execute_on_publish(r) ==
  IF r.ok THEN "Done"
  ELSE IF r.error.kind = "EventStoreVersionMismatch" THEN "Waiting"
  ELSE "Fail"

\* steps 1 to 3: the budget check and the call of read_stream
Begin(p) ==
  /\ revision = "retry"
  /\ pc[p] = "Start"
  /\ IF execute_budget_spent(retries[p], cfg)
       THEN /\ pc' = [pc EXCEPT ![p] = "Done"]
            /\ result' = [result EXCEPT ![p] =
                 Err(MaxRetriesExceeded(EventStreamId_to_string(StreamU),
                                        ExecuteConfig_max_retries(cfg)))]
            /\ UNCHANGED <<expected_version, cursor, attempts, handled, readLog,
                           lastAnswer, H0>>
       ELSE \E fault \in Faults :
              LET answer == Client_read_stream(stream, fault)
                  r == Kurrent_read_stream(StreamU, answer)
                  next == execute_on_read(r)
              IN  /\ fault = "ResourceNotFound" => stream = <<>>
                  /\ expected_version' = [expected_version EXCEPT ![p] = None]
                  /\ cursor' = [cursor EXCEPT ![p] = 0]
                  /\ attempts' = [attempts EXCEPT ![p] = @ + 1]
                  /\ handled' = [handled EXCEPT ![p] = "no"]
                  /\ readLog' = [readLog EXCEPT ![p] = <<>>]
                  /\ lastAnswer' = [lastAnswer EXCEPT ![p] =
                       [op |-> "read_stream", kind |-> answer.kind]]
                  /\ H0' = [H0 EXCEPT ![p] = IF attempts[p] = 0 THEN stream ELSE @]
                  /\ pc' = [pc EXCEPT ![p] = IF next = "Fail" THEN "Done" ELSE next]
                  /\ result' = [result EXCEPT ![p] = IF next = "Fail" THEN r ELSE @]
  /\ UNCHANGED <<revision, lib, stream, writes, cfg, retries, command, events, sleeps,
                 marks, pubLog, foreign>>

\* the command after apply was called with each of the first n items pulled
\* (the command so far is bound as a value, to be computed once)
RECURSIVE ApplyAll(_, _, _)
ApplyAll(self, items, n) ==
  IF n = 0 THEN self
  ELSE CHOOSE next \in {Command_apply(prev, items[n].event) :
                          prev \in {ApplyAll(self, items, n - 1)}} : TRUE

\* step 3: the pulls from the open read, each followed by its fold step, up to
\* the pull that ends the loop (end of stream, or an error).  `fault` is the
\* transport fault of the first pull.
Drain(E, s, self, fault) ==
  LET answer(i) == ReadStream_next(s, i, IF i = 0 THEN fault ELSE "none")
      pull(i) == EventStream_next(E, answer(i))
      failing == {i \in 0..Len(s) : ~pull(i).ok}
      stop == IF failing = {} THEN Len(s)
              ELSE CHOOSE i \in failing : \A j \in failing : i <= j
      items == [i \in 1..stop |-> Unwrap(pull(i - 1).item)]
  IN  [status |-> IF failing = {} THEN "End" ELSE "Fail",
       result |-> IF failing = {} THEN Ok ELSE pull(stop),
       answer |-> answer(stop).kind,
       command |-> ApplyAll(self, items, stop),
       expected_version |-> IF stop = 0 THEN None ELSE Some(items[stop].version),
       cursor |-> stop,
       log |-> [i \in 1..stop |->
                  [event |-> items[i].event, revision |-> answer(i - 1).revision]]]

\* step 3: the stream is drained; recorded events are never changed or removed,
\* so the pulls are taken together at the instant of the last one
Pull(p) ==
  /\ revision = "retry"
  /\ pc[p] = "Folding"
  /\ \E fault \in {"none", "Unavailable"} :
       \E d \in {Drain(EventTypeOf(command[p].kind), stream, command[p], fault)} :
           /\ lastAnswer' = [lastAnswer EXCEPT ![p] = [op |-> "next", kind |-> d.answer]]
           /\ command' = [command EXCEPT ![p] = d.command]
           /\ expected_version' = [expected_version EXCEPT ![p] = d.expected_version]
           /\ cursor' = [cursor EXCEPT ![p] = d.cursor]
           /\ readLog' = [readLog EXCEPT ![p] = d.log]
           /\ pc' = [pc EXCEPT ![p] = IF d.status = "Fail" THEN "Done" ELSE "Handling"]
           /\ result' = [result EXCEPT ![p] = IF d.status = "Fail" THEN d.result ELSE @]
  /\ UNCHANGED <<revision, lib, stream, writes, cfg, retries, events, attempts, sleeps,
                 marks, handled, pubLog, foreign, H0>>

\* steps 4 and 5: handle, and the return on a user error or on no events
Handle(p) ==
  /\ revision = "retry"
  /\ pc[p] = "Handling"
  /\ LET h == Command_handle(command[p])
         next == execute_on_handle(h)
     IN  /\ handled' = [handled EXCEPT ![p] =
               IF h.outcome = "Ok" /\ h.events = <<>> THEN "Empty" ELSE h.outcome]
         /\ events' = [events EXCEPT ![p] = IF h.outcome = "Ok" THEN h.events ELSE <<>>]
         /\ pc' = [pc EXCEPT ![p] = IF next = "Publishing" THEN next ELSE "Done"]
         /\ result' = [result EXCEPT ![p] =
               CASE next = "Fail" ->
                      Err(CommandFailed(h.message, execute_attempt_number(retries[p]),
                                        ExecuteConfig_max_retries(cfg)))
                 [] next = "Panic" -> Panicked
                 [] next = "Done" -> Ok
                 [] OTHER -> @]
  /\ UNCHANGED <<revision, lib, stream, writes, cfg, retries, command, expected_version,
                 cursor, attempts, sleeps, marks, readLog, pubLog, lastAnswer, foreign,
                 H0>>

\* step 6: publish with the version observed during the read, against a store
\* whose faults are those of F
PublishWith(p, F) ==
  /\ revision = "retry"
  /\ pc[p] = "Publishing"
  /\ \E fault \in F :
       LET r == Kurrent_publish(stream, StreamU, events[p], expected_version[p], fault)
           next == execute_on_publish(r.result)
       IN  /\ stream' = r.stream
           /\ pubLog' = [pubLog EXCEPT ![p] =
                Append(@, [expected |-> expected_version[p],
                           consumed |-> readLog[p],
                           state |-> command[p].state,
                           answer |-> r.answer,
                           result |-> r.result])]
           /\ lastAnswer' = [lastAnswer EXCEPT ![p] = [op |-> "append", kind |-> r.answer]]
           /\ foreign' = IF r.answer = "Ok" THEN ForeignAfter(p) ELSE foreign
           /\ pc' = [pc EXCEPT ![p] = IF next = "Fail" THEN "Done" ELSE next]
           /\ result' = [result EXCEPT ![p] =
                CASE next = "Done" -> Ok
                  [] next = "Fail" -> r.result
                  [] OTHER -> @]
  /\ UNCHANGED <<revision, lib, writes, cfg, retries, command, expected_version, cursor,
                 events, attempts, sleeps, marks, handled, readLog, H0>>

Publish(p) == PublishWith(p, Faults)

\* step 6, on VersionMismatch: the back-off sleep, a suspension point
\* (r is a u32; a validated config keeps it within MAX_RETRIES_LIMIT here)
Sleep(p) ==
  /\ revision = "retry"
  /\ pc[p] = "Waiting"
  /\ retries[p] <= MAX_RETRIES_LIMIT
  /\ sleeps' = [sleeps EXCEPT ![p] = @ + 1]
  /\ pc' = [pc EXCEPT ![p] = "Marking"]
  /\ UNCHANGED <<revision, lib, stream, writes, cfg, retries, command, expected_version,
                 cursor, events, result, attempts, marks, handled, readLog, pubLog,
                 lastAnswer, foreign, H0>>

\* step 6, after the sleep: C <- C.mark_retry(), r <- r + 1, continue the loop
MarkRetry(p) ==
  /\ revision = "retry"
  /\ pc[p] = "Marking"
  /\ command' = [command EXCEPT ![p] = Command_mark_retry(@)]
  /\ marks' = [marks EXCEPT ![p] = @ + 1]
  /\ retries' = [retries EXCEPT ![p] = @ + 1]
  /\ pc' = [pc EXCEPT ![p] = "Start"]
  /\ UNCHANGED <<revision, lib, stream, writes, cfg, expected_version, cursor, events,
                 result, attempts, sleeps, handled, readLog, pubLog, lastAnswer, foreign,
                 H0>>

\* cancellation at the publish: the log accepted the append and the task was
\* aborted before it saw the acknowledgement
CancelAfterAppend(p) ==
  /\ revision = "retry"
  /\ pc[p] = "Publishing"
  /\ LET r == Kurrent_publish(stream, StreamU, events[p], expected_version[p], "none")
     IN  /\ r.answer = "Ok"
         /\ stream' = r.stream
         /\ pubLog' = [pubLog EXCEPT ![p] =
              Append(@, [expected |-> expected_version[p],
                         consumed |-> readLog[p],
                         state |-> command[p].state,
                         answer |-> r.answer,
                         result |-> Cancelled])]
         /\ lastAnswer' = [lastAnswer EXCEPT ![p] = [op |-> "append", kind |-> r.answer]]
         /\ foreign' = ForeignAfter(p)
         /\ pc' = [pc EXCEPT ![p] = "Cancelled"]
         /\ result' = [result EXCEPT ![p] = Cancelled]
  /\ UNCHANGED <<revision, lib, writes, cfg, retries, command, expected_version, cursor,
                 events, attempts, sleeps, marks, handled, readLog, H0>>

\* the appends the external writer is given
WriteBudget == IF \E p \in Procs : pc[p] = "Absent" THEN MaxWrites ELSE DuelWrites

\* another writer appends one event to the stream, whatever its version
WriterAppend ==
  /\ revision = "retry"
  /\ writes < WriteBudget
  /\ \E e \in WriterEvents :
       stream' = EventStreamWriter_append(stream, <<e>>)
  /\ writes' = writes + 1
  /\ foreign' = ForeignAfter(0)
  /\ UNCHANGED <<revision, lib, cfg, local, history>>

(***************************************************************************)
(* lib.rs: execute(command, event_store, failure_context) over the         *)
(* EventStore trait, with the store and the commands of its test module.   *)
(***************************************************************************)
StreamIds == {"thing.123", "thing.456"}
STREAM_ID == "thing.123"
CommandIds == {123, 456}

\* EventStreamId::new_test(format!("thing.{}", id))
ThingId(id) == IF id = 123 THEN "thing.123" ELSE "thing.456"

EventEnvelope(event, stream_id, stream_version) ==
  [event |-> event, stream_id |-> stream_id, stream_version |-> stream_version]

EventStreamQuery(stream_ids) == [stream_ids |-> stream_ids]

\* DomainEvent::BazHappened { id, value } and DomainEvent::CommandRecovered
DomainBazHappened(id, value) == [type |-> "BazHappened", id |-> id, value |-> value]
CommandRecovered == [type |-> "CommandRecovered"]

\* AggregateStreamVersions(HashMap::new()) and its update: HashMap::insert
AggregateStreamVersions_new == [id \in {} |-> 0]

AggregateStreamVersions_update(self, stream_id, stream_version) ==
  [id \in DOMAIN self \cup {stream_id} |->
     IF id = stream_id THEN stream_version ELSE self[id]]

StorageErrorOther(message) == [kind |-> "StorageError", variant |-> "Other", message |-> message]
Rejected == [kind |-> "Rejected"]

\* the most publishes of one execute that the store fails
MaxFailures == 3

\* the commands of the test module, and two more implementations of Command:
\* Counting(limit), whose FailureContext counts the errors it was handed and
\* which stops at limit, and Escalating, which answers an error with its own
LibCommands ==
  {[kind |-> "Noop", id |-> id] : id \in CommandIds}
    \cup {[kind |-> "EventProducing", id |-> 0], [kind |-> "Recovering", id |-> 0]}
    \cup {[kind |-> "Stateful", id |-> id] : id \in CommandIds}
    \cup {[kind |-> "Counting", id |-> limit] : limit \in {1, MaxFailures}}
    \cup {[kind |-> "Escalating", id |-> 0]}

\* Command::event_stream_query: None by default, StatefulCommand's own stream
lib_event_stream_query(c) ==
  IF c.kind = "Stateful" THEN Some(EventStreamQuery(<<ThingId(c.id)>>)) ELSE None

\* State::default(): Stateless, or StatefulCommandState(0)
lib_State_default(c) == IF c.kind = "Stateful" THEN [value |-> 0] ELSE UnitState

\* AggregateState::apply_event of Stateless and of StatefulCommandState
lib_apply_event(c, state, event) ==
  IF c.kind # "Stateful" THEN UnitState
  ELSE CASE event.type \in {"FooHappened", "BarHappened", "BazHappened"} ->
              [value |-> event.value]
         [] OTHER -> [value |-> 0]

\* Command::handle of the test commands (state.0 * 2 is far below the u64 range
\* for the values the stores of the model hold)
lib_handle(c, state) ==
  CASE c.kind = "Noop" -> IF c.id = 456 THEN Err(Rejected) ELSE [ok |-> TRUE, events |-> <<>>]
    [] c.kind = "EventProducing" ->
         [ok |-> TRUE, events |-> <<FooHappened(123), BarHappened(123)>>]
    [] c.kind \in {"Recovering", "Counting", "Escalating"} ->
         [ok |-> TRUE, events |-> <<CommandRecovered>>]
    [] c.kind = "Stateful" ->
         [ok |-> TRUE, events |-> <<DomainBazHappened(c.id, state.value * 2)>>]

\* Command::handle_error: Ok(None) by default; RecoveringCommand goes on after
\* a storage error
lib_handle_error(c, error, failure_context) ==
  CASE c.kind = "Recovering" ->
         IF error.kind = "StorageError"
           THEN [ok |-> TRUE, context |-> Some("FailureContext")]
           ELSE Err(error)
    [] c.kind = "Counting" ->
         LET handed == IF IsSome(failure_context) THEN Unwrap(failure_context) ELSE 0
         IN  IF handed >= c.id THEN [ok |-> TRUE, context |-> None]
             ELSE [ok |-> TRUE, context |-> Some(handed + 1)]
    [] c.kind = "Escalating" -> Err(Rejected)
    [] OTHER -> [ok |-> TRUE, context |-> None]

\* execute with a handle_error answer of None taken as a request to go on
execute_on_error_going_on(he, error, failure_context) ==
  IF ~he.ok THEN [loop |-> FALSE, result |-> he, failure_context |-> None]
  ELSE [loop |-> TRUE, result |-> NotStarted, failure_context |-> he.context]

\* execute with the context of the caller kept for every handle_error call
execute_on_error_keeping_context(he, error, failure_context) ==
  IF ~he.ok THEN [loop |-> FALSE, result |-> he, failure_context |-> None]
  ELSE IF IsSome(he.context)
    THEN [loop |-> TRUE, result |-> NotStarted, failure_context |-> failure_context]
    ELSE [loop |-> FALSE, result |-> Err(error), failure_context |-> None]

\* execute, the arm of a failed publish: `?` on handle_error's answer he, then
\* Some(updated) goes round the loop with it and None returns the error; the
\* context handed to handle_error was moved into the call
execute_on_error(he, error, failure_context) ==
  IF ~he.ok THEN [loop |-> FALSE, result |-> he, failure_context |-> None]
  ELSE IF IsSome(he.context)
    THEN [loop |-> TRUE, result |-> NotStarted, failure_context |-> he.context]
    ELSE [loop |-> FALSE, result |-> Err(error), failure_context |-> None]

\* EventStoreImpl::publish that stores the events of a publish it fails
EventStoreImpl_publish_storing_on_failure(self, evs, _expected_version) ==
  LET n == Len(self.events)
      starting_version == IF n = 0 \/ n = 1 THEN 0 ELSE n
      stored == [self EXCEPT !.events = @ \o
                  [i \in 1..Len(evs) |->
                     EventEnvelope(evs[i], STREAM_ID,
                                   EventStreamVersion_new(starting_version + (i - 1)))]]
  IN  IF self.should_fail
        THEN [result |-> Err(StorageErrorOther("Failed to store events")),
              store |-> [stored EXCEPT !.should_fail = FALSE]]
        ELSE [result |-> Ok, store |-> stored]

\* EventStoreImpl::publish: the result and the store afterwards
EventStoreImpl_publish(self, evs, _expected_version) ==
  IF self.should_fail
    THEN [result |-> Err(StorageErrorOther("Failed to store events")),
          store |-> [self EXCEPT !.should_fail = FALSE]]
    ELSE LET n == Len(self.events)
             starting_version == IF n = 0 \/ n = 1 THEN 0 ELSE n
         IN  [result |-> Ok,
              store |-> [self EXCEPT !.events = @ \o
                [i \in 1..Len(evs) |->
                   EventEnvelope(evs[i], STREAM_ID,
                                 EventStreamVersion_new(starting_version + (i - 1)))]]]

\* EventStoreImpl::read_stream: the assert_eq on the query, then the envelopes
EventStoreImpl_read_stream(self, query) ==
  IF Some(query) # self.expected_stream_query
    THEN [panic |-> TRUE]
    ELSE [panic |-> FALSE, ok |-> TRUE, envelopes |-> self.events]

\* the fold of build_state over the envelopes read: state and versions
RECURSIVE build_state_fold(_, _, _)
build_state_fold(c, acc, envelopes) ==
  IF envelopes = <<>> THEN acc
  ELSE LET e == Head(envelopes)
       IN  build_state_fold(c,
             [state |-> lib_apply_event(c, acc.state, e.event),
              version |-> AggregateStreamVersions_update(acc.version, e.stream_id,
                                                          e.stream_version)],
             Tail(envelopes))

\* build_state reading the command's own stream when it has no query
build_state_always_reading(c, store) ==
  LET start == [state |-> lib_State_default(c), version |-> AggregateStreamVersions_new]
      q == IF lib_event_stream_query(c) = None THEN Some(EventStreamQuery(<<STREAM_ID>>))
           ELSE lib_event_stream_query(c)
      r == EventStoreImpl_read_stream(store, Unwrap(q))
  IN  IF r.panic THEN [panic |-> TRUE, consumed |-> <<>>, reads |-> 1] @@ start
      ELSE IF ~r.ok THEN [panic |-> FALSE, consumed |-> <<>>, reads |-> 1] @@ start
      ELSE [panic |-> FALSE, consumed |-> r.envelopes, reads |-> 1]
             @@ build_state_fold(c, start, r.envelopes)

\* build_state(&command, event_store); reads is the number of read_stream
\* calls it made
build_state(c, store) ==
  LET start == [state |-> lib_State_default(c), version |-> AggregateStreamVersions_new]
      q == lib_event_stream_query(c)
  IN  IF q = None THEN [panic |-> FALSE, consumed |-> <<>>, reads |-> 0] @@ start
      ELSE LET r == EventStoreImpl_read_stream(store, Unwrap(q))
           IN  IF r.panic THEN [panic |-> TRUE, consumed |-> <<>>, reads |-> 1] @@ start
               ELSE IF ~r.ok THEN [panic |-> FALSE, consumed |-> <<>>, reads |-> 1] @@ start
               ELSE [panic |-> FALSE, consumed |-> r.envelopes, reads |-> 1]
                      @@ build_state_fold(c, start, r.envelopes)

\* the envelopes a store holds before execute: those of the given streams, in
\* any interleaving, each stream's versions counting from 0
EnvelopesOf(ids) ==
  [i \in 1..Len(ids) |->
     EventEnvelope(IF i % 2 = 1 THEN FooHappened(i) ELSE BarHappened(i), ids[i],
                   EventStreamVersion_new(Cardinality({j \in 1..(i - 1) : ids[j] = ids[i]})))]

EnvelopeSeqs == {EnvelopesOf(ids) : ids \in UNION {[1..n -> StreamIds] : n \in 0..MaxEnvelopes}}

InitQuery ==
  /\ revision = "query"
  /\ stream = <<>>
  /\ writes = 0
  /\ cfg = ExecuteConfig_default
  /\ pc = [p \in Procs |-> "Absent"]
  /\ retries = [p \in Procs |-> 0]
  /\ command = [p \in Procs |-> NewCommand("Noop")]
  /\ expected_version = [p \in Procs |-> None]
  /\ cursor = [p \in Procs |-> 0]
  /\ events = [p \in Procs |-> <<>>]
  /\ result = [p \in Procs |-> NotStarted]
  /\ attempts = [p \in Procs |-> 0]
  /\ sleeps = [p \in Procs |-> 0]
  /\ marks = [p \in Procs |-> 0]
  /\ handled = [p \in Procs |-> "no"]
  /\ readLog = [p \in Procs |-> <<>>]
  /\ pubLog = [p \in Procs |-> <<>>]
  /\ lastAnswer = [p \in Procs |-> [op |-> "none", kind |-> "none"]]
  /\ foreign = [p \in Procs |-> <<>>]
  /\ H0 = [p \in Procs |-> <<>>]
  /\ \E c \in LibCommands, envelopes \in EnvelopeSeqs, fail \in BOOLEAN,
        q \in {None} \cup {Some(EventStreamQuery(<<id>>)) : id \in StreamIds} :
      \E ctx \in IF c.kind = "Counting" THEN {None, Some(0), Some(1)}
                  ELSE {None, Some("FailureContext")} :
       lib = [pc |-> "Start",
              command |-> c,
              store |-> [events |-> envelopes, should_fail |-> fail,
                         expected_stream_query |-> q],
              failure_context |-> ctx,
              state |-> lib_State_default(c),
              version |-> AggregateStreamVersions_new,
              events |-> <<>>,
              result |-> NotStarted,
              consumed |-> <<>>,
              rounds |-> 0,
              publishes |-> 0,
              given |-> [store |-> envelopes, failure_context |-> ctx],
              reads |-> 0,
              handle_error |-> <<>>]

retryVars == <<stream, writes, cfg, pc, retries, command, expected_version, cursor,
               events, result, attempts, sleeps, marks, handled, readLog, pubLog, lastAnswer,
               foreign, H0>>

\* execute, the head of the loop: build_state
LibBuild ==
  /\ revision = "query"
  /\ lib.pc = "Start"
  /\ LET b == build_state(lib.command, lib.store)
     IN  lib' = IF b.panic
                  THEN [lib EXCEPT !.pc = "Done", !.result = Panicked,
                                   !.reads = @ + b.reads]
                  ELSE [lib EXCEPT !.pc = "Handling", !.state = b.state,
                                   !.version = b.version, !.consumed = b.consumed,
                                   !.rounds = @ + 1, !.reads = @ + b.reads]
  /\ UNCHANGED <<revision, retryVars>>

\* execute: command.handle(state)?
LibHandle ==
  /\ revision = "query"
  /\ lib.pc = "Handling"
  /\ LET h == lib_handle(lib.command, lib.state)
     IN  lib' = IF h.ok
                  THEN [lib EXCEPT !.pc = "Publishing", !.events = h.events]
                  ELSE [lib EXCEPT !.pc = "Done", !.result = h]
  /\ UNCHANGED <<revision, retryVars>>

\* execute: publish, and on its error handle_error
LibPublish ==
  /\ revision = "query"
  /\ lib.pc = "Publishing"
  /\ LET r == EventStoreImpl_publish(lib.store, lib.events, lib.version)
         after == [lib EXCEPT !.store = r.store, !.publishes = @ + 1]
     IN  lib' =
           IF r.result.ok THEN [after EXCEPT !.pc = "Done", !.result = Ok]
           ELSE LET he == lib_handle_error(lib.command, r.result.error, lib.failure_context)
                    arm == execute_on_error(he, r.result.error, lib.failure_context)
                    called == [after EXCEPT !.handle_error =
                                 Append(@, [error |-> r.result.error,
                                            failure_context |-> lib.failure_context,
                                            answer |-> he])]
                IN  IF arm.loop
                      THEN [called EXCEPT !.pc = "Start",
                                          !.failure_context = arm.failure_context]
                      ELSE [called EXCEPT !.pc = "Done", !.result = arm.result]
  /\ UNCHANGED <<revision, retryVars>>

\* an EventStore whose publish fails again: the flag of the test store is set
\* once more between two rounds of the loop
ProduceError ==
  /\ revision = "query"
  /\ lib.pc = "Start"
  /\ 1 <= lib.publishes /\ lib.publishes < MaxFailures
  /\ ~lib.store.should_fail
  /\ lib' = [lib EXCEPT !.store.should_fail = TRUE]
  /\ UNCHANGED <<revision, retryVars>>

NextQuery == LibBuild \/ LibHandle \/ LibPublish \/ ProduceError

(***************************************************************************)
(* config.rs: an ExecuteConfig built from the default by a chain of with_  *)
(* calls; a call that fails leaves the caller with the config it had.      *)
(***************************************************************************)
\* the builder calls made on one config
MaxCalls == 3

\* the arguments the calls are made with: around each limit, and the values
\* of the unit tests
RetriesArgs == {0, 1, 5, MAX_RETRIES_LIMIT, MAX_RETRIES_LIMIT + 1}
DelayArgs ==
  {0, MIN_DELAY_MS - 1, MIN_DELAY_MS, 100, 200, 1000, MAX_DELAY_MS, MAX_DELAY_MS + 1, 30000}

\* no invocation of execute is made
NoInvocation ==
  /\ stream = <<>>
  /\ writes = 0
  /\ pc = [p \in Procs |-> "Absent"]
  /\ retries = [p \in Procs |-> 0]
  /\ command = [p \in Procs |-> NewCommand("Noop")]
  /\ expected_version = [p \in Procs |-> None]
  /\ cursor = [p \in Procs |-> 0]
  /\ events = [p \in Procs |-> <<>>]
  /\ result = [p \in Procs |-> NotStarted]
  /\ attempts = [p \in Procs |-> 0]
  /\ sleeps = [p \in Procs |-> 0]
  /\ marks = [p \in Procs |-> 0]
  /\ handled = [p \in Procs |-> "no"]
  /\ readLog = [p \in Procs |-> <<>>]
  /\ pubLog = [p \in Procs |-> <<>>]
  /\ lastAnswer = [p \in Procs |-> [op |-> "none", kind |-> "none"]]
  /\ foreign = [p \in Procs |-> <<>>]
  /\ H0 = [p \in Procs |-> <<>>]

unbuiltVars == <<stream, writes, pc, retries, command, expected_version, cursor, events,
                 result, attempts, sleeps, marks, handled, readLog, pubLog, lastAnswer,
                 foreign, H0>>

InitConfig ==
  /\ revision = "config"
  /\ cfg = ExecuteConfig_default
  /\ lib = [pc |-> "Building", calls |-> 0, op |-> "default", arg |-> 0,
            before |-> ExecuteConfig_default, result |-> Ok]
  /\ NoInvocation

\* one with_ call: the config is replaced on Ok and kept on Err
Built(op, arg, r) ==
  /\ revision = "config"
  /\ lib.calls < MaxCalls
  /\ cfg' = IF r.ok THEN r.config ELSE cfg
  /\ lib' = [lib EXCEPT !.calls = @ + 1, !.op = op, !.arg = arg, !.before = cfg,
                         !.result = IF r.ok THEN Ok ELSE r]
  /\ UNCHANGED <<revision, unbuiltVars>>

WithMaxRetries == \E n \in RetriesArgs : Built("with_max_retries", n, with_max_retries(cfg, n))
WithBaseDelay == \E d \in DelayArgs : Built("with_base_delay", d, with_base_delay(cfg, d))
WithMaxDelay == \E m \in DelayArgs : Built("with_max_delay", m, with_max_delay(cfg, m))

NextConfig == WithMaxRetries \/ WithBaseDelay \/ WithMaxDelay

(***************************************************************************)
(* delay.rs: calculate_delay called on a RetryDelay made with              *)
(* RetryDelay::new, which takes any base and any cap.                      *)
(***************************************************************************)
\* the greatest retry_count calculate_delay is called with
MaxRetryCount == 64

\* the most passwords the builder's calls replace
MaxDrops == 1

\* the bases and caps: none, the least, those of the tests and of the default
BaseArgs == {0, 1, MIN_DELAY_MS, 100, MAX_DELAY_MS}
CapArgs == {0, 100, 500, 1000, 30000}

InitDelay ==
  /\ revision = "delay"
  /\ cfg = ExecuteConfig_default
  /\ \E b \in BaseArgs, m \in CapArgs, r \in 0..MaxRetryCount :
       lib = [pc |-> "Calling", retry_delay |-> RetryDelay_new(b, m), retry_count |-> r,
              result |-> [panic |-> FALSE, wrapped |-> FALSE, delay |-> 0]]
  /\ NoInvocation

\* one call of calculate_delay, in a build with or without overflow checks
CalculateDelay ==
  /\ revision = "delay"
  /\ lib.pc = "Calling"
  /\ \E overflow_checks \in BOOLEAN, jitter \in Jitters :
       lib' = [lib EXCEPT !.pc = "Returned",
                 !.result = calculate_delay(lib.retry_delay, lib.retry_count,
                                            overflow_checks, jitter)]
  /\ UNCHANGED <<revision, cfg, unbuiltVars>>

NextDelay == CalculateDelay

(***************************************************************************)
(* delay.rs called on several threads.  THREAD_RNG is a thread_local: one  *)
(* cell per thread, made from the seed 0 when the thread first reaches it. *)
(* A generator is its seed and the number of values drawn from it; what    *)
(* the n-th value of a generator seeded 0 is, is the generator's algorithm *)
(* (`generator`), any one function fixed for the whole run.                *)
(***************************************************************************)
Threads == {1, 2}

\* the most calls of calculate_delay the threads make, all together
MaxDraws == 4

\* the calls: the second delay of the tests' RetryDelay, and a retry count
\* 2u64.pow overflows on
ThreadCalls ==
  { [retry_delay |-> RetryDelay_new(100, 1000), retry_count |-> 1],
    [retry_delay |-> RetryDelay_new(100, 1000), retry_count |-> U64_BITS] }

SmallRng_seed_from_u64(seed) == [seed |-> seed, draws |-> 0]

\* one value drawn from the generator
SmallRng_next(rng) == [rng EXCEPT !.draws = @ + 1]

\* one generator for the whole process
THREAD_RNG_static(thread) == 1

\* the cell a thread's calls reach: its own
THREAD_RNG(thread) == thread

\* THREAD_RNG.with: the cell's generator, made at the first use
THREAD_RNG_with(cells, thread) ==
  IF IsSome(cells[THREAD_RNG(thread)])
    THEN Unwrap(cells[THREAD_RNG(thread)])
    ELSE SmallRng_seed_from_u64(0)

InitThreads ==
  /\ revision = "threads"
  /\ cfg = ExecuteConfig_default
  /\ \E generator \in [0..(MaxDraws - 1) -> Jitters], overflow_checks \in BOOLEAN :
       lib = [pc |-> "Calling", generator |-> generator, overflow_checks |-> overflow_checks,
              cells |-> [t \in Threads |-> None],
              calls |-> [t \in Threads |-> <<>>],
              delays |-> [t \in Threads |-> <<>>]]
  /\ NoInvocation

\* one call of calculate_delay on a thread: a call that panics has not reached
\* THREAD_RNG; any other draws one value from the thread's generator
ThreadCalculateDelay(thread) ==
  /\ revision = "threads"
  /\ Len(lib.calls[1]) + Len(lib.calls[2]) < MaxDraws
  /\ \E call \in ThreadCalls :
       LET rng == THREAD_RNG_with(lib.cells, thread)
           r == calculate_delay(call.retry_delay, call.retry_count, lib.overflow_checks,
                                lib.generator[rng.draws])
       IN  lib' = [lib EXCEPT !.calls[thread] = Append(@, call),
                     !.delays[thread] = Append(@, r),
                     !.cells[THREAD_RNG(thread)] =
                        IF r.panic THEN @ ELSE Some(SmallRng_next(rng))]
  /\ UNCHANGED <<revision, cfg, unbuiltVars>>

NextThreads == \E thread \in Threads : ThreadCalculateDelay(thread)

(***************************************************************************)
(* kurrent_adapter/settings.rs: ConnectionSettings made by the builder or  *)
(* from the environment, cloned and dropped.  A password is the sequence   *)
(* of its bytes; a port read from the environment is the sequence of its   *)
(* characters.                                                             *)
(***************************************************************************)
SecureString_new(s) == [inner |-> s, should_zero |-> TRUE]

SecureString_clone(self) == [inner |-> self.inner, should_zero |-> FALSE]

\* Drop for SecureString: the bytes are copied into a new vector and the vector
\* is filled with zeros; `inner` is what the string's own buffer holds when it
\* is released, `vec` the filled copy (None when nothing was filled)
SecureString_drop(self) ==
  IF self.should_zero
    THEN LET vec == [i \in 1..Len(self.inner) |-> self.inner[i]]
         IN  [inner |-> self.inner, vec |-> Some([i \in 1..Len(vec) |-> 0])]
    ELSE [inner |-> self.inner, vec |-> None]

ConnectionSettingsBuilder_default ==
  [host |-> None, port |-> None, tls |-> None, username |-> None, password |-> None]

\* ConnectionSettingsBuilder::host, port, tls, username and password
ConnectionSettingsBuilder_set(self, field, value) ==
  CASE field = "host" -> [self EXCEPT !.host = Some(value)]
    [] field = "port" -> [self EXCEPT !.port = Some(value)]
    [] field = "tls" -> [self EXCEPT !.tls = Some(value)]
    [] field = "username" -> [self EXCEPT !.username = Some(value)]
    [] field = "password" -> [self EXCEPT !.password = Some(SecureString_new(value))]

\* ConnectionSettingsBuilder::build with an empty password for a missing one
ConnectionSettingsBuilder_build_defaulting(self) ==
  [ok |-> TRUE,
   settings |->
     [host |-> IF IsSome(self.host) THEN Unwrap(self.host) ELSE "localhost",
      port |-> IF IsSome(self.port) THEN Unwrap(self.port) ELSE 2113,
      tls |-> IF IsSome(self.tls) THEN Unwrap(self.tls) ELSE FALSE,
      username |-> IF IsSome(self.username) THEN Unwrap(self.username) ELSE "admin",
      password |-> IF IsSome(self.password) THEN Unwrap(self.password)
                   ELSE SecureString_new(<<>>)]]

ConnectionSettingsBuilder_build(self) ==
  IF IsSome(self.password)
    THEN [ok |-> TRUE,
          settings |->
            [host |-> IF IsSome(self.host) THEN Unwrap(self.host) ELSE "localhost",
             port |-> IF IsSome(self.port) THEN Unwrap(self.port) ELSE 2113,
             tls |-> IF IsSome(self.tls) THEN Unwrap(self.tls) ELSE FALSE,
             username |-> IF IsSome(self.username) THEN Unwrap(self.username) ELSE "admin",
             password |-> Unwrap(self.password)]]
    ELSE Err(InvalidConfig("password is required", Some("password")))

\* ConnectionSettings::from_env on the environment env: a variable is
\* NotPresent, NotUnicode or Present with its value
ConnectionSettings_from_env(env) ==
  LET var_opt(key) == IF env[key].kind = "Present" THEN Some(env[key].value) ELSE None
      Digits == <<"0", "1", "2", "3", "4", "5", "6", "7", "8", "9">>
      IsDigit(c) == \E d \in 1..10 : Digits[d] = c
      DigitOf(c) == (CHOOSE d \in 1..10 : Digits[d] = c) - 1
      RECURSIVE number(_, _)
      \* the digits read so far are acc; None past u16::MAX or at another character
      number(acc, chars) ==
        IF chars = <<>> THEN Some(acc)
        ELSE IF ~IsDigit(Head(chars)) THEN None
        ELSE IF acc * 10 + DigitOf(Head(chars)) > 65535 THEN None
        ELSE number(acc * 10 + DigitOf(Head(chars)), Tail(chars))
      \* str::parse::<u16>: an optional + and at least one digit
      parse_u16(chars) ==
        IF chars = <<>> THEN None
        ELSE IF Head(chars) = "+"
          THEN IF Tail(chars) = <<>> THEN None ELSE number(0, Tail(chars))
        ELSE number(0, chars)
      \* str::parse::<bool>
      parse_bool(t) ==
        IF t = "true" THEN Some(TRUE) ELSE IF t = "false" THEN Some(FALSE) ELSE None
      host == IF IsSome(var_opt("KURRENT_HOST")) THEN Unwrap(var_opt("KURRENT_HOST"))
              ELSE "localhost"
      port == IF IsSome(var_opt("KURRENT_PORT")) /\ IsSome(parse_u16(Unwrap(var_opt("KURRENT_PORT"))))
                THEN Unwrap(parse_u16(Unwrap(var_opt("KURRENT_PORT"))))
                ELSE 2113
      tls == IF IsSome(var_opt("KURRENT_TLS")) /\ IsSome(parse_bool(Unwrap(var_opt("KURRENT_TLS"))))
               THEN Unwrap(parse_bool(Unwrap(var_opt("KURRENT_TLS"))))
               ELSE FALSE
      username == IF IsSome(var_opt("KURRENT_USERNAME"))
                    THEN Unwrap(var_opt("KURRENT_USERNAME"))
                    ELSE "admin"
  IN  IF env["KURRENT_PASSWORD"].kind = "Present"
        THEN [ok |-> TRUE,
              settings |-> [host |-> host, port |-> port, tls |-> tls, username |-> username,
                            password |-> SecureString_new(env["KURRENT_PASSWORD"].value)]]
        ELSE Err(InvalidConfig("KURRENT_PASSWORD environment variable is required",
                               Some("password")))

\* the arguments of the builder's calls: those of the tests, the defaults, and
\* an empty password
SettingsArgs ==
  [host |-> {"example.com"}, port |-> {1234, 2113}, tls |-> BOOLEAN, username |-> {"user"},
   password |-> {<<>>, <<112, 97, 115, 115>>}]

\* the environments from_env reads
Envs ==
  LET Unset == {[kind |-> "NotPresent"]}
      Garbled == {[kind |-> "NotUnicode"]}
      Set(values) == {[kind |-> "Present", value |-> v] : v \in values}
  IN  [KURRENT_HOST : Unset \cup Set(SettingsArgs.host),
       KURRENT_PORT : Unset \cup Set({<<"1", "2", "3", "4">>, <<"+", "8", "0">>,
                                      <<"6", "5", "5", "3", "6">>, <<"x">>}),
       KURRENT_TLS : Unset \cup Set({"true", "yes"}),
       KURRENT_USERNAME : Unset \cup Garbled \cup Set(SettingsArgs.username),
       KURRENT_PASSWORD : Unset \cup Garbled \cup Set(SettingsArgs.password)]

InitSettings ==
  /\ revision = "settings"
  /\ cfg = ExecuteConfig_default
  /\ lib = [pc |-> "Building", op |-> "builder", builder |-> ConnectionSettingsBuilder_default,
            env |-> [kind |-> "none"], result |-> Ok, clone |-> None, live |-> {},
            dropped |-> <<>>]
  /\ NoInvocation

\* one call of host, port, tls, username or password on the builder; the
\* password a second call replaces is dropped
BuilderSet ==
  /\ revision = "settings"
  /\ lib.pc = "Building"
  /\ \E field \in DOMAIN SettingsArgs :
       \E value \in SettingsArgs[field] :
         /\ field = "password" /\ IsSome(lib.builder.password) => Len(lib.dropped) < MaxDrops
         /\ lib' = [lib EXCEPT
                     !.builder = ConnectionSettingsBuilder_set(@, field, value),
                     !.dropped = IF field = "password" /\ IsSome(lib.builder.password)
                                   THEN Append(@, [string |-> Unwrap(lib.builder.password),
                                                   memory |-> SecureString_drop(
                                                                Unwrap(lib.builder.password))])
                                   ELSE @]
  /\ UNCHANGED <<revision, cfg, unbuiltVars>>

BuilderBuild ==
  /\ revision = "settings"
  /\ lib.pc = "Building"
  /\ LET r == ConnectionSettingsBuilder_build(lib.builder)
     IN  lib' = [lib EXCEPT !.pc = "Built", !.op = "build", !.result = r,
                            !.live = IF r.ok THEN {"original"} ELSE {}]
  /\ UNCHANGED <<revision, cfg, unbuiltVars>>

FromEnv ==
  /\ revision = "settings"
  /\ lib.pc = "Building"
  /\ lib.builder = ConnectionSettingsBuilder_default
  /\ \E env \in Envs :
       LET r == ConnectionSettings_from_env(env)
       IN  lib' = [lib EXCEPT !.pc = "Built", !.op = "from_env", !.env = env, !.result = r,
                              !.live = IF r.ok THEN {"original"} ELSE {}]
  /\ UNCHANGED <<revision, cfg, unbuiltVars>>

\* #[derive(Clone)] of ConnectionSettings clones the password
CloneSettings ==
  /\ revision = "settings"
  /\ lib.pc = "Built"
  /\ "original" \in lib.live
  /\ lib.clone = None
  /\ lib' = [lib EXCEPT
               !.clone = Some([lib.result.settings EXCEPT
                                 !.password = SecureString_clone(@)]),
               !.live = @ \cup {"clone"}]
  /\ UNCHANGED <<revision, cfg, unbuiltVars>>

\* the settings or their clone go out of scope
DropSettings ==
  /\ revision = "settings"
  /\ lib.pc = "Built"
  /\ \E which \in lib.live :
       LET password == IF which = "clone" THEN Unwrap(lib.clone).password
                       ELSE lib.result.settings.password
       IN  lib' = [lib EXCEPT !.live = @ \ {which},
                     !.dropped = Append(@, [string |-> password,
                                            memory |-> SecureString_drop(password)])]
  /\ UNCHANGED <<revision, cfg, unbuiltVars>>

NextSettings == BuilderSet \/ BuilderBuild \/ FromEnv \/ CloneSettings \/ DropSettings

NextRetry ==
  \/ \E p \in Procs : Begin(p)
  \/ \E p \in Procs : Pull(p)
  \/ \E p \in Procs : Handle(p)
  \/ \E p \in Procs : Publish(p)
  \/ \E p \in Procs : Sleep(p)
  \/ \E p \in Procs : MarkRetry(p)
  \/ \E p \in Procs : CancelAfterAppend(p)
  \/ WriterAppend

Init ==
  InitRetry \/ InitQuery \/ InitConfig \/ InitDelay \/ InitThreads \/ InitSettings

Next ==
  NextRetry \/ NextQuery \/ NextConfig \/ NextDelay \/ NextThreads \/ NextSettings

Spec == Init /\ [][Next]_vars


(***************************************************************************)
(* Helpers of the properties.                                              *)
(***************************************************************************)
\* the events of a sequence of recorded events, parsed as E
DecodeAll(E, datas) == [i \in 1..Len(datas) |-> as_json(E, datas[i]).event]

\* the events of a read log
EventsOf(log) == [i \in 1..Len(log) |-> log[i].event]

IsPrefix(a, b) == Len(a) <= Len(b) /\ SubSeq(b, 1, Len(a)) = a

Running == {p \in Procs : pc[p] # "Absent"}

\* the state a fresh command of p's kind has after folding the events
FoldFresh(p, evs) == Fold(command[p].kind, EmptyState(command[p].kind), evs)

(***************************************************************************)
(* C1.  At most one winner: when two invocations on the same stream made   *)
(* their first publish with the same observed version (a concrete version, *)
(* or absent), the two first publishes are never both accepted.            *)
(***************************************************************************)
C1_AtMostOneWinner ==
  \A p, q \in Running :
    (/\ p # q
     /\ pubLog[p] # <<>>
     /\ pubLog[q] # <<>>
     /\ pubLog[p][1].expected = pubLog[q][1].expected)
    => ~(pubLog[p][1].answer = "Ok" /\ pubLog[q][1].answer = "Ok")

(***************************************************************************)
(* C2.  State/version coherence: the expected_version of every publish is  *)
(* the version of the last event the attempt's fold consumed, and is       *)
(* absent exactly when the fold consumed none; in lib.rs the version       *)
(* build_state records for a stream is the version of the last envelope    *)
(* read from that stream, and only streams read from have one.             *)
(***************************************************************************)
\* the position of the last envelope of stream id among those consumed, or 0
LastOf(envelopes, id) ==
  LET at == {i \in 1..Len(envelopes) : envelopes[i].stream_id = id}
  IN  IF at = {} THEN 0 ELSE CHOOSE i \in at : \A j \in at : j <= i

C2_WitnessMultiStream ==
  /\ revision = "query"
  /\ lib.pc = "Handling"
  /\ DOMAIN lib.version = StreamIds
  /\ lib.version["thing.123"] = 1
  /\ lib.version["thing.456"] = 0
  /\ lib.consumed[Len(lib.consumed)].stream_id = "thing.456"

(***************************************************************************)
(* C3.  Fresh re-fold per attempt: whenever handle has been called on the  *)
(* current attempt, the state it saw is fold(apply, empty, events read     *)
(* during that attempt).                                                   *)
(***************************************************************************)
C3_FreshFoldPerAttempt ==
  \A p \in Running :
    handled[p] # "no" => command[p].state = FoldFresh(p, EventsOf(readLog[p]))

(***************************************************************************)
(* C4.  Retry after a race: when exactly one append by another writer      *)
(* happened during a successful invocation, and it came after the first    *)
(* read and before the first publish, then the first publish was rejected, *)
(* there were exactly two attempts, and the stream is H ++ W ++ E with E   *)
(* what handle produces from fold(apply, empty, H ++ W).                   *)
(***************************************************************************)
C4_RetryAfterRace ==
  \A p \in Running :
    (/\ pc[p] = "Done"
     /\ result[p].ok
     /\ pubLog[p] # <<>>
     /\ Len(foreign[p]) = 1
     /\ foreign[p][1][2] = 1
     /\ foreign[p][1][1] \in {"Handling", "Publishing"})
    => LET n == Len(events[p])
           HW == SubSeq(stream, 1, Len(stream) - n)
           E == SubSeq(stream, Len(stream) - n + 1, Len(stream))
           fresh == [command[p] EXCEPT !.state =
                       FoldFresh(p, DecodeAll(EventTypeOf(command[p].kind), HW))]
       IN  /\ pubLog[p][1].answer = "WrongExpectedVersion"
           /\ attempts[p] = 2
           /\ Len(pubLog[p]) = 2
           /\ IsPrefix(H0[p], HW)
           /\ Len(HW) > Len(H0[p])
           /\ Command_handle(fresh).outcome = "Ok"
           /\ E = EncodeAll(Command_handle(fresh).events).datas

(***************************************************************************)
(* C5.  State reconstruction: when an invocation succeeded and no other    *)
(* writer appended since its first read found history H, it made one      *)
(* attempt, the state handle saw is fold(apply, empty, H) in append order, *)
(* its events E are what handle produces from that state, and the stream   *)
(* is H ++ E.                                                              *)
(***************************************************************************)
C5_StateReconstruction ==
  \A p \in Running :
    (pc[p] = "Done" /\ result[p] = Ok /\ foreign[p] = <<>>)
    => LET H == DecodeAll(EventTypeOf(command[p].kind), H0[p])
           fresh == [command[p] EXCEPT !.state = FoldFresh(p, H)]
       IN  /\ attempts[p] = 1
           /\ EventsOf(readLog[p]) = H
           /\ command[p].state = FoldFresh(p, H)
           /\ Command_handle(fresh).outcome = "Ok"
           /\ events[p] = Command_handle(fresh).events
           /\ stream = H0[p] \o EncodeAll(events[p]).datas

\* C5's case: a command that reads two events and publishes one has succeeded
C5_Witness ==
  \E p \in Running :
    /\ pc[p] = "Done" /\ result[p] = Ok /\ foreign[p] = <<>>
    /\ command[p].kind \in {"Stateful", "Tally"}
    /\ Len(H0[p]) = 2
    /\ Len(stream) = 3

(***************************************************************************)
(* C6.  Empty-events no-op: when handle returned no events, the invocation *)
(* is done with success, it has called publish on no attempt, and the      *)
(* stream is as it found it unless another writer appended.                *)
(***************************************************************************)
C6_EmptyEventsNoOp ==
  \A p \in Running :
    handled[p] = "Empty"
    => /\ pc[p] = "Done"
       /\ result[p] = Ok
       /\ pubLog[p] = <<>>
       /\ lastAnswer[p].op # "append"
       /\ foreign[p] = <<>> => stream = H0[p]

\* C6's case: handle returned no events on a stream that holds events
C6_Witness ==
  \E p \in Running : handled[p] = "Empty" /\ H0[p] # <<>> /\ pc[p] = "Done"

(***************************************************************************)
(* C7.  Only VersionMismatch is retried: an attempt after the first is     *)
(* started only after the publish of the attempt before it was rejected    *)
(* with a version mismatch; a read that failed, and a publish that failed  *)
(* otherwise (not found, other, event not serializable), end the           *)
(* invocation on that attempt with that error as the result.               *)
(***************************************************************************)
C7_OnlyVersionMismatchRetried ==
  \A p \in Running :
    /\ \A k \in 2..attempts[p] :
         /\ Len(pubLog[p]) >= k - 1
         /\ pubLog[p][k - 1].answer = "WrongExpectedVersion"
    /\ Len(pubLog[p]) <= attempts[p]
    /\ \A i \in 1..Len(pubLog[p]) :
         pubLog[p][i].answer \notin {"Ok", "WrongExpectedVersion"}
         => /\ i = attempts[p]
            /\ pc[p] = "Done"
            /\ result[p] =
                 CASE pubLog[p][i].answer = "ResourceNotFound" ->
                        Err(EventStoreStreamNotFound(StreamU))
                   [] pubLog[p][i].answer = "NotSent" -> Err(EventDeserializationError)
                   [] OTHER -> Err(EventStoreOther(pubLog[p][i].answer))
    /\ (lastAnswer[p].op \in {"read_stream", "next"} /\ lastAnswer[p].kind = "Unavailable")
       => /\ pc[p] = "Done"
          /\ result[p] = Err(EventStoreOther("Unavailable"))
          /\ handled[p] = "no"
          /\ Len(pubLog[p]) = attempts[p] - 1
    /\ (lastAnswer[p].op = "next" /\ lastAnswer[p].kind = "Event")
       => /\ pc[p] = "Done"
          /\ result[p] = Err(EventDeserializationError)
          /\ handled[p] = "no"
          /\ Len(pubLog[p]) = attempts[p] - 1

\* C7's case: a retry was made, and its publish failed with NotFound
C7_Witness ==
  \E p \in Running :
    /\ attempts[p] = 2
    /\ Len(pubLog[p]) = 2
    /\ pubLog[p][2].answer = "ResourceNotFound"
    /\ pc[p] = "Done"

(***************************************************************************)
(* C8.  Retry budget: an invocation never makes more than max_retries + 1  *)
(* attempts or publishes; when each of its max_retries + 1 publishes was   *)
(* rejected with a version mismatch it ends, and only then, with           *)
(* MaxRetriesExceeded carrying the stream id and cfg.max_retries.          *)
(***************************************************************************)
C8_RetryBudget ==
  \A p \in Running :
    LET n == cfg.max_retries
        exhausted == /\ Len(pubLog[p]) = n + 1
                     /\ \A i \in 1..(n + 1) : pubLog[p][i].answer = "WrongExpectedVersion"
    IN  /\ attempts[p] <= n + 1
        /\ Len(pubLog[p]) <= n + 1
        /\ (pc[p] = "Done" /\ exhausted)
           => result[p] = Err(MaxRetriesExceeded(EventStreamId_to_string(StreamU), n))
        /\ (~result[p].ok /\ result[p].error.kind = "MaxRetriesExceeded")
           => attempts[p] = n + 1 /\ exhausted

\* C8's case: the budget of max_retries = 3 is spent
C8_Witness ==
  \E p \in Running :
    /\ cfg.max_retries = 3
    /\ pc[p] = "Done"
    /\ ~result[p].ok /\ result[p].error.kind = "MaxRetriesExceeded"
    /\ attempts[p] = 4

(***************************************************************************)
(* C9.  Sleeps per exhausted budget: an invocation that ended with         *)
(* MaxRetriesExceeded under max_retries = n made n + 1 attempts and slept  *)
(* n times: no sleep follows the last rejected publish.                    *)
(***************************************************************************)
C9_SleepsPerExhaustedBudget ==
  \A p \in Running :
    (pc[p] = "Done" /\ ~result[p].ok /\ result[p].error.kind = "MaxRetriesExceeded")
    => attempts[p] = cfg.max_retries + 1 /\ sleeps[p] = cfg.max_retries

(***************************************************************************)
(* C10.  Termination: when every step of an invocation that can be taken   *)
(* is eventually taken, the invocation reaches Done, whatever the store    *)
(* answers: the store of SpecLive may reject any publish, as if another    *)
(* writer had appended just before it.                                     *)
(***************************************************************************)
Adversarial == Faults \cup {"Conflict"}

Step(p) ==
  Begin(p) \/ Pull(p) \/ Handle(p) \/ PublishWith(p, Adversarial) \/ Sleep(p) \/ MarkRetry(p)

Steps == \E p \in Procs : Step(p)

NextLive == Steps

\* one invocation against the adversarial store: what other writers do shows
\* to it in the store's answers only
InitLive == InitRetry /\ pc[2] = "Absent"

\* an invocation that can take a step is not left waiting forever by the
\* runtime, and each store operation returns
SpecLive == InitLive /\ [][NextLive]_vars /\ WF_vars(Steps)

C10_Termination == <>(\A p \in Running : pc[p] = "Done")

\* C10's case: every publish of the invocation was rejected, by a store that
\* would have accepted the last one, and the invocation is done
C10_Witness ==
  \E p \in Running :
    /\ pc[p] = "Done"
    /\ Len(pubLog[p]) = cfg.max_retries + 1
    /\ cfg.max_retries >= 1
    /\ \A i \in 1..Len(pubLog[p]) : pubLog[p][i].answer = "WrongExpectedVersion"
    /\ foreign[p] = <<>>


(***************************************************************************)
(* C11.  User error is terminal: when handle returned an error on attempt  *)
(* r + 1, execute is done with CommandFailed whose message and source are  *)
(* the error's text, whose attempt is r + 1 and whose max_attempts is      *)
(* cfg.max_retries; publish was not called on that attempt, which is the   *)
(* invocation's last, and nothing of the invocation is in the stream.      *)
(***************************************************************************)
\* the text of the error a command's handle returns
UserErrorText(kind) == IF kind = "Reject" THEN "Command failed: no" ELSE "Command failed: full"

C11_UserErrorTerminal ==
  \A p \in Running :
    handled[p] = "Err"
    => /\ pc[p] = "Done"
       /\ result[p] =
            [ok |-> FALSE,
             error |-> [kind |-> "CommandFailed",
                        message |-> UserErrorText(command[p].kind),
                        attempt |-> attempts[p],
                        max_attempts |-> cfg.max_retries,
                        source |-> UserErrorText(command[p].kind)]]
       /\ attempts[p] = retries[p] + 1
       /\ Len(pubLog[p]) = attempts[p] - 1
       /\ lastAnswer[p].op # "append"
       /\ \A i \in 1..Len(pubLog[p]) : pubLog[p][i].answer = "WrongExpectedVersion"

\* C11's case: handle rejected on the second attempt, after a retried conflict
C11_Witness ==
  \E p \in Running :
    /\ handled[p] = "Err"
    /\ attempts[p] = 2
    /\ pc[p] = "Done"


(***************************************************************************)
(* C12.  Read failure is terminal: when read_stream, or a pull from the    *)
(* open read, failed with an error other than NotFound (the log not        *)
(* available, an event that cannot be decoded), execute is done with that  *)
(* error as its result, handle was not called on that attempt and publish  *)
(* was not called on it; and nothing of the invocation changes afterwards. *)
(***************************************************************************)
\* the invocation's last call was a read, and it failed
ReadFailed(p) ==
  \/ lastAnswer[p].op \in {"read_stream", "next"} /\ lastAnswer[p].kind = "Unavailable"
  \/ lastAnswer[p].op = "next" /\ lastAnswer[p].kind = "Event"

\* the error the adapter hands back for that failure
ReadError(p) ==
  IF lastAnswer[p].kind = "Event"
    THEN [ok |-> FALSE, error |-> [kind |-> "EventDeserializationError"]]
    ELSE [ok |-> FALSE, error |-> [kind |-> "EventStoreOther", source |-> "Unavailable"]]

\* what p has done and holds
Trace(p) ==
  <<pc[p], result[p], handled[p], pubLog[p], attempts[p], retries[p], command[p],
    sleeps[p], marks[p]>>

ReadNotFound(p) ==
  lastAnswer[p].op \in {"read_stream", "next"} /\ lastAnswer[p].kind = "ResourceNotFound"

C13_NotFoundIsEmptyStream ==
  \A p \in Running :
    /\ ReadNotFound(p)
       => /\ pc[p] \in {"Handling", "Publishing", "Done"}
          /\ readLog[p] = <<>>
          /\ expected_version[p] = None
          /\ command[p].state = EmptyState(command[p].kind)
          /\ pc[p] # "Handling" => handled[p] # "no"
          /\ pc[p] = "Publishing" => handled[p] = "Ok" /\ events[p] # <<>>
          /\ pc[p] = "Done"
             => \/ handled[p] = "Empty" /\ result[p].ok
                \/ handled[p] = "Err" /\ result[p].error.kind = "CommandFailed"
                \/ handled[p] = "Panic" /\ result[p].error.kind = "Panic"
    /\ \A i \in 1..Len(pubLog[p]) :
         pubLog[p][i].consumed = <<>>
         => /\ pubLog[p][i].expected = None
            /\ pubLog[p][i].answer # "WrongExpectedVersion"
            /\ (i = Len(pubLog[p]) /\ pubLog[p][i].result.ok) => result[p].ok

\* C13's case: the stream did not exist at the read, and the events handle
\* returned were published and accepted
C13_Witness ==
  \E p \in Running :
    /\ H0[p] = <<>>
    /\ pubLog[p] # <<>>
    /\ pubLog[p][1].consumed = <<>>
    /\ pubLog[p][1].expected = None
    /\ pubLog[p][1].answer = "Ok"
    /\ pc[p] = "Done" /\ result[p].ok


(***************************************************************************)
(* C14.  Step order within an attempt: handle is called only after the     *)
(* attempt's read was drained to its end (or found no stream) and every    *)
(* event pulled was folded, and handle changes nothing in the store;       *)
(* publish is called only after the attempt's handle returned events; an   *)
(* attempt after the first begins only after the publish of the attempt    *)
(* before it has returned.                                                 *)
(***************************************************************************)
HandleCalled(p) == handled[p] = "no" /\ handled'[p] # "no"
PublishCalled(p) == Len(pubLog'[p]) = Len(pubLog[p]) + 1
AttemptBegun(p) == attempts'[p] = attempts[p] + 1

C14_StepOrder ==
  [][\A p \in Running :
       /\ HandleCalled(p)
          => /\ attempts[p] >= 1
             /\ lastAnswer[p].op \in {"read_stream", "next"}
             /\ lastAnswer[p].kind \in {"End", "ResourceNotFound"}
             /\ cursor[p] = Len(readLog[p])
             /\ IsPrefix([i \in 1..Len(readLog[p]) |->
                            EventData_json(readLog[p][i].event).data], stream)
             /\ attempts[p] = 1
                => command[p].state = FoldFresh(p, EventsOf(readLog[p]))
             /\ stream' = stream
             /\ pubLog' = pubLog
       /\ PublishCalled(p)
          => /\ handled[p] = "Ok"
             /\ events[p] # <<>>
             /\ events[p] = Command_handle(command[p]).events
             /\ Len(pubLog[p]) = attempts[p] - 1
       /\ (AttemptBegun(p) /\ attempts[p] >= 1)
          => /\ Len(pubLog[p]) = attempts[p]
             /\ lastAnswer[p].op = "append"
             /\ handled[p] = "Ok"]_vars

\* C14's case: on a second attempt the read was drained, handle was called and
\* its events are about to be published
C14_Witness ==
  \E p \in Running :
    /\ attempts[p] = 2
    /\ pc[p] = "Publishing"
    /\ handled[p] = "Ok"
    /\ Len(readLog[p]) = 3
    /\ Len(pubLog[p]) = 1


(***************************************************************************)
(* C15.  Retry step order: after a publish rejected with VersionMismatch   *)
(* the executor first sleeps, then replaces the command by mark_retry(),   *)
(* then increments the retry counter by one, then starts the next attempt  *)
(* with a read; mark_retry is called exactly once per retry (once for each *)
(* attempt after the first) and never on a terminal outcome.               *)
(***************************************************************************)
\* the order of sleep, mark_retry, r + 1 and the next read
C15_Order ==
  \A p \in Running :
    /\ sleeps'[p] # sleeps[p]
       => /\ lastAnswer[p] = [op |-> "append", kind |-> "WrongExpectedVersion"]
          /\ sleeps'[p] = sleeps[p] + 1
          /\ marks'[p] = marks[p] /\ marks[p] = sleeps[p]
          /\ retries'[p] = retries[p]
          /\ attempts'[p] = attempts[p]
    /\ marks'[p] # marks[p]
       => /\ sleeps[p] = marks[p] + 1
          /\ marks'[p] = marks[p] + 1
          /\ command'[p] = Command_mark_retry(command[p])
          /\ retries'[p] = retries[p] + 1
          /\ attempts'[p] = attempts[p]
    /\ (AttemptBegun(p) /\ attempts[p] >= 1)
       => /\ marks[p] = attempts[p]
          /\ retries[p] = attempts[p]
          /\ lastAnswer'[p].op = "read_stream"

\* mark_retry was called once for each attempt after the first
C15_OncePerRetry ==
  \A p \in Running : pc[p] = "Done" => marks[p] = attempts[p] - 1

C15_RetryStepOrder == [][C15_Order /\ C15_OncePerRetry']_vars


(***************************************************************************)
(* C16.  Version monotonicity: under every interleaving of invocations and *)
(* the other writer, no step removes or changes a recorded event, so the   *)
(* stream's version never decreases; every accepted append of k events     *)
(* raises the version by k, so successive accepted appends end at strictly *)
(* increasing versions, and a rejected or failed one leaves the stream as  *)
(* it was; the i-th event of the stream is read with version i - 1, and k  *)
(* events appended to an empty stream (or to the empty store of lib.rs)    *)
(* leave it at version k - 1.                                              *)
(***************************************************************************)
\* the version of a stream: the revision of its last event, absent without one
StreamVersion(s) == extract_current_revision(CurrentRevision(s))

\* a version as a number, an absent one below every version
VersionRank(v) == IF IsSome(v) THEN EventStreamVersion_value(Unwrap(v)) ELSE -1

C16_Appends ==
  /\ IsPrefix(stream, stream')
  /\ VersionRank(StreamVersion(stream')) >= VersionRank(StreamVersion(stream))
  /\ stream' # stream
     => VersionRank(StreamVersion(stream')) > VersionRank(StreamVersion(stream))
  /\ \A p \in Running :
       PublishCalled(p)
       => IF pubLog'[p][Len(pubLog'[p])].answer = "Ok"
            THEN /\ VersionRank(StreamVersion(stream')) =
                      VersionRank(StreamVersion(stream)) + Len(events[p])
                 /\ stream = <<>> => StreamVersion(stream') = Some(Len(events[p]) - 1)
            ELSE stream' = stream
  /\ writes' # writes
     => VersionRank(StreamVersion(stream')) = VersionRank(StreamVersion(stream)) + 1

C16_Reads ==
  \A p \in Running :
    readLog'[p] # readLog[p]
    => /\ \A i \in 1..Len(readLog'[p]) : readLog'[p][i].revision = i - 1
       /\ readLog'[p] # <<>>
          => /\ expected_version'[p] = Some(Len(readLog'[p]) - 1)
             /\ VersionRank(expected_version'[p]) <= VersionRank(StreamVersion(stream))

C16_EmptyStore ==
  (/\ revision = "query"
   /\ lib.store.events = <<>>
   /\ lib'.store.events # <<>>)
  => \A i \in 1..Len(lib'.store.events) :
       lib'.store.events[i].stream_version = EventStreamVersion_new(i - 1)

C16_VersionMonotonicity == [][C16_Appends /\ C16_Reads /\ C16_EmptyStore]_vars

\* C16's case: after two events recorded beforehand and one of another writer,
\* the invocation's two events were accepted on its retry: versions 0 to 4
C16_Witness ==
  \E p \in Running :
    /\ Len(pubLog[p]) = 2
    /\ pubLog[p][1].answer = "WrongExpectedVersion"
    /\ pubLog[p][2].answer = "Ok"
    /\ pubLog[p][2].expected = Some(2)
    /\ StreamVersion(stream) = Some(4)


(***************************************************************************)
(* C17.  Configuration bounds hold for every constructed config: every     *)
(* ExecuteConfig obtained from the default by successful with_max_retries, *)
(* with_base_delay and with_max_delay calls has 1 <= max_retries <= 10,    *)
(* 50 <= base_delay_ms <= 5000 and max_delay_ms >= base_delay_ms; the      *)
(* default is (3, 100, 30000).                                             *)
(***************************************************************************)
C17_ConfigBounds ==
  /\ ExecuteConfig_default =
       [max_retries |-> 3, retry_delay |-> [base_delay_ms |-> 100, max_delay_ms |-> 30000]]
  /\ 1 <= ExecuteConfig_max_retries(cfg) /\ ExecuteConfig_max_retries(cfg) <= 10
  /\ 50 <= RetryDelay_base_delay_ms(ExecuteConfig_retry_delay(cfg))
  /\ RetryDelay_base_delay_ms(ExecuteConfig_retry_delay(cfg)) <= 5000
  /\ RetryDelay_max_delay_ms(ExecuteConfig_retry_delay(cfg)) >=
       RetryDelay_base_delay_ms(ExecuteConfig_retry_delay(cfg))

(***************************************************************************)
(* C18.  Config validation round-trips: with_max_retries(n) succeeds       *)
(* exactly when 1 <= n <= 10, with_base_delay(d) exactly when              *)
(* 50 <= d <= 5000, with_max_delay(m) exactly when m is at least the base  *)
(* delay of the config it is called on; after a success the getter returns *)
(* the value given and the other two values are as before; a failure is    *)
(* InvalidConfig whose parameter names the parameter of the call.          *)
(***************************************************************************)
\* the three values of a config, as its getters return them
Getters(c) ==
  [max_retries |-> ExecuteConfig_max_retries(c),
   base_delay_ms |-> RetryDelay_base_delay_ms(ExecuteConfig_retry_delay(c)),
   max_delay_ms |-> RetryDelay_max_delay_ms(ExecuteConfig_retry_delay(c))]

\* the value a with_ call sets, and the name InvalidConfig gives it
FieldOf(op) ==
  CASE op = "with_max_retries" -> "max_retries"
    [] op = "with_base_delay" -> "base_delay_ms"
    [] op = "with_max_delay" -> "max_delay_ms"

ParameterOf(op) ==
  CASE op = "with_max_retries" -> "max_retries"
    [] op = "with_base_delay" -> "base_retry_delay_ms"
    [] op = "with_max_delay" -> "max_delay_ms"

\* whether the call is to succeed
Valid(op, arg, before) ==
  CASE op = "with_max_retries" -> 1 <= arg /\ arg <= 10
    [] op = "with_base_delay" -> 50 <= arg /\ arg <= 5000
    [] op = "with_max_delay" -> arg >= Getters(before).base_delay_ms

C18_ConfigRoundTrip ==
  (revision = "config" /\ lib.calls > 0)
  => /\ lib.result.ok <=> Valid(lib.op, lib.arg, lib.before)
     /\ lib.result.ok
        => /\ Getters(cfg)[FieldOf(lib.op)] = lib.arg
           /\ \A f \in DOMAIN Getters(cfg) \ {FieldOf(lib.op)} :
                Getters(cfg)[f] = Getters(lib.before)[f]
     /\ ~lib.result.ok
        => /\ lib.result.error.kind = "InvalidConfig"
           /\ lib.result.error.parameter = <<ParameterOf(lib.op)>>
           /\ cfg = lib.before

\* C18's case: with_base_delay(50) succeeded on a config whose max_retries had
\* been set to 10
C18_Witness ==
  /\ revision = "config"
  /\ lib.op = "with_base_delay" /\ lib.arg = 50 /\ lib.result.ok
  /\ Getters(cfg) = [max_retries |-> 10, base_delay_ms |-> 50, max_delay_ms |-> 30000]


(***************************************************************************)
(* C19.  Delay bounds: for every retry_count r, base b and cap m,          *)
(* calculate_delay(r) returns a whole number of milliseconds within        *)
(* [0, min(b * 2^r, m)], where b * 2^r saturates at the greatest 64-bit    *)
(* value (the bound is then m); it never panics and never wraps.           *)
(***************************************************************************)
\* min(b * 2^r saturating, m), for b and m below 2^31
SaturatingBound(b, r, m) ==
  IF b = 0 THEN 0
  ELSE IF r >= 31 THEN m
  ELSE IF b > m \div (2 ^ r) THEN m
  ELSE b * (2 ^ r)

C19_DelayBounds ==
  (revision = "delay" /\ lib.pc = "Returned")
  => /\ ~lib.result.panic
     /\ ~lib.result.wrapped
     /\ lib.result.delay \in
          0..SaturatingBound(lib.retry_delay.base_delay_ms, lib.retry_count,
                             lib.retry_delay.max_delay_ms)


(***************************************************************************)
(* C20.  Expected-revision mapping: publish asks the log for Exact(v) when *)
(* it is called with expected_version = Some(v) and for Any when it is     *)
(* called without one, never for NoStream; so the log, when it answers at  *)
(* all, accepts a publish without expected_version whatever the stream     *)
(* holds, and one with Some(v) exactly when the stream is at version v.    *)
(***************************************************************************)
\* the versions a publish is called with in the model
Versions == 0..(MaxWrites + 4)

C20_Mapping ==
  /\ publish_expected_revision(<<>>) = [mode |-> "Any"]
  /\ \A v \in Versions :
       publish_expected_revision(<<v>>) = [mode |-> "Exact", revision |-> v]

C20_Answers ==
  \A p \in Running :
    PublishCalled(p)
    => LET answer == pubLog'[p][Len(pubLog'[p])].answer
       IN  /\ expected_version[p] = <<>> \/ expected_version[p][1] \in Versions
           /\ answer \in {"Ok", "WrongExpectedVersion"}
              => (answer = "Ok" <=>
                    \/ expected_version[p] = <<>>
                    \/ stream # <<>> /\ expected_version[p] = <<Len(stream) - 1>>)

C20_ExpectedRevisionMapping == [][C20_Mapping /\ C20_Answers]_vars

\* C20's case: the stream did not exist when the invocation read it, another
\* writer's event was recorded before the publish, and the publish, made
\* without expected_version, was accepted behind that event
C20_Witness ==
  \E p \in Running :
    /\ pubLog[p] # <<>>
    /\ pubLog[p][1].expected = <<>>
    /\ pubLog[p][1].answer = "Ok"
    /\ writes = 1
    /\ Len(stream) = 3
    /\ stream[1] = EventData_json(FooHappened(2)).data


(***************************************************************************)
(* C21.  Mismatch projection: when the log rejects an append with          *)
(* WrongExpectedVersion, the VersionMismatch handed back has expected =    *)
(* Some(n) exactly when the log's expected value was Exact(n) and actual = *)
(* Some(n) exactly when its current value was Current(n); Any and NoStream *)
(* project to None; the error carries the stream id of the append.         *)
(***************************************************************************)
\* the projection, for every pair of values the log may report
C21_Projection ==
  \A e \in {[mode |-> "Any"], [mode |-> "NoStream"]}
            \cup {[mode |-> "Exact", revision |-> n] : n \in Versions},
     c \in {[mode |-> "NoStream"]} \cup {[mode |-> "Current", revision |-> n] : n \in Versions} :
    append_to_stream_map_err("u", [kind |-> "WrongExpectedVersion", current |-> c,
                                   expected |-> e]) =
      [kind |-> "EventStoreVersionMismatch",
       stream |-> "u",
       expected |-> IF e.mode = "Exact" THEN <<e.revision>> ELSE <<>>,
       actual |-> IF c.mode = "Current" THEN <<c.revision>> ELSE <<>>,
       source |-> "WrongExpectedVersion"]

\* the error of a publish the log has just rejected
C21_Rejected ==
  \A p \in Running :
    (PublishCalled(p) /\ pubLog'[p][Len(pubLog'[p])].answer = "WrongExpectedVersion")
    => pubLog'[p][Len(pubLog'[p])].result =
         [ok |-> FALSE,
          error |-> [kind |-> "EventStoreVersionMismatch",
                     stream |-> "u",
                     expected |-> expected_version[p],
                     actual |-> IF stream = <<>> THEN <<>> ELSE <<Len(stream) - 1>>,
                     source |-> "WrongExpectedVersion"]]

C21_MismatchProjection == [][C21_Projection /\ C21_Rejected]_vars

\* C21's case: a publish made with Some(1) was rejected by a stream at version 2
C21_Witness ==
  \E p \in Running :
    /\ pubLog[p] # <<>>
    /\ pubLog[p][1].answer = "WrongExpectedVersion"
    /\ pubLog[p][1].result.error.expected = <<1>>
    /\ pubLog[p][1].result.error.actual = <<2>>


(***************************************************************************)
(* C22.  NotFound is distinct from an empty successful read: when the log  *)
(* reports that the stream does not exist, at read_stream or at a pull,    *)
(* what the caller of read_stream and next gets differs from what it gets  *)
(* at the end of a stream that exists.                                     *)
(***************************************************************************)
\* what the adapter handed the invocation for the last call of its read
PortOutcome(p) ==
  IF lastAnswer[p].op = "read_stream"
    THEN Kurrent_read_stream(StreamU, [kind |-> lastAnswer[p].kind])
    ELSE EventStream_next(EventTypeOf(command[p].kind), [kind |-> lastAnswer[p].kind])

\* what next hands back at the end of a stream that exists
EndOfStream(p) == EventStream_next(EventTypeOf(command[p].kind), [kind |-> "End"])

C22_NotFoundDistinct ==
  \A p \in Running : ReadNotFound(p) => PortOutcome(p) # EndOfStream(p)


(***************************************************************************)
(* C23.  Atomic batch append: a publish either appends every event of its  *)
(* batch, contiguously and in the given order, behind what the stream      *)
(* held, or leaves the stream as it was; when an event of the batch cannot *)
(* be encoded, publish hands back the serialization failure, nothing is    *)
(* sent and the stream is as it was.                                       *)
(***************************************************************************)
\* the payloads of a batch, in order
Payloads(batch) == [i \in 1..Len(batch) |-> EventData_json(batch[i]).data]

C23_Publish ==
  \A p \in Running :
    PublishCalled(p)
    => LET made == pubLog'[p][Len(pubLog'[p])]
           encodable == \A i \in 1..Len(events[p]) : EventData_json(events[p][i]).ok
       IN  /\ made.answer = "Ok" => encodable /\ stream' = stream \o Payloads(events[p])
           /\ made.answer # "Ok" => stream' = stream
           /\ ~encodable
              => /\ made.answer = "NotSent"
                 /\ made.result = [ok |-> FALSE, error |-> [kind |-> "EventDeserializationError"]]
                 /\ result'[p] = made.result
                 /\ pc'[p] = "Done"

C23_AtomicBatchAppend == [][C23_Publish]_vars

\* C23's case: the second event of a batch of two could not be encoded and the
\* stream, which held two events, is as it was
C23_Witness ==
  \E p \in Running :
    /\ command[p].kind = "Unencodable"
    /\ pubLog[p] # <<>>
    /\ pubLog[p][1].answer = "NotSent"
    /\ Len(H0[p]) = 2
    /\ stream = H0[p]
    /\ pc[p] = "Done"

(***************************************************************************)
(* C24.  Password scrubbing: when the original SecureString is dropped     *)
(* every byte of its buffer is zero afterwards; when a clone is dropped    *)
(* nothing is zeroed.                                                      *)
(***************************************************************************)
C24_PasswordScrubbing ==
  revision = "settings"
  => \A i \in 1..Len(lib.dropped) :
       LET d == lib.dropped[i]
       IN  /\ d.string.should_zero
              => \A j \in 1..Len(d.memory.inner) : d.memory.inner[j] = 0
           /\ ~d.string.should_zero
              => d.memory.inner = d.string.inner /\ d.memory.vec = None

(***************************************************************************)
(* C25.  The password is required: build and from_env succeed exactly when *)
(* a password was supplied and otherwise fail with InvalidConfig whose     *)
(* parameter is "password"; in the settings made, a field that was not     *)
(* supplied has its default (localhost, 2113, false, admin) and a field    *)
(* that was supplied has the value supplied.                               *)
(***************************************************************************)
\* what was supplied for a field: by the builder's calls, or by the environment
\* as from_env reads it
Supplied(field) ==
  IF lib.op = "build" THEN lib.builder[field]
  ELSE LET v == lib.env[CASE field = "host" -> "KURRENT_HOST"
                          [] field = "port" -> "KURRENT_PORT"
                          [] field = "tls" -> "KURRENT_TLS"
                          [] field = "username" -> "KURRENT_USERNAME"
                          [] field = "password" -> "KURRENT_PASSWORD"]
       IN  IF v.kind = "Present" THEN Some(v.value) ELSE None

SettingsDefaults == [host |-> "localhost", port |-> 2113, tls |-> FALSE, username |-> "admin"]

C25_PasswordRequired ==
  revision = "settings" /\ lib.pc = "Built"
  => /\ lib.result.ok <=> IsSome(Supplied("password"))
     /\ ~lib.result.ok
        => /\ lib.result.error.kind = "InvalidConfig"
           /\ lib.result.error.parameter = Some("password")
     /\ lib.result.ok
        => /\ \A field \in DOMAIN SettingsDefaults :
                Supplied(field) = None
                => lib.result.settings[field] = SettingsDefaults[field]
           /\ lib.op = "build"
              => \A field \in DOMAIN SettingsDefaults :
                   IsSome(Supplied(field))
                   => lib.result.settings[field] = Unwrap(Supplied(field))
           /\ lib.result.settings.password.inner
                = (IF lib.op = "build" THEN Unwrap(Supplied("password")).inner
                   ELSE Unwrap(Supplied("password")))

\* C25's case: a build with nothing but the password supplied has made the
\* settings, and they hold the four defaults
C25_Witness ==
  /\ revision = "settings"
  /\ lib.pc = "Built"
  /\ lib.op = "build"
  /\ lib.builder = [ConnectionSettingsBuilder_default EXCEPT
                      !.password = Some(SecureString_new(<<112, 97, 115, 115>>))]
  /\ lib.result.ok
  /\ lib.result.settings.port = 2113

(***************************************************************************)
(* C26.  handle_error decides the loop of lib.rs's execute: a publish that *)
(* fails with e is followed by exactly one call handle_error(e, ctx), made *)
(* nowhere else; on Some(ctx') execute goes round the loop again, on None  *)
(* it returns e, and on Err(e') it returns e'.  With the default           *)
(* handle_error the first publish error is returned after exactly one      *)
(* publish, and the store is unchanged.                                    *)
(***************************************************************************)
\* this step is execute's call of publish
LibPublished == revision = "query" /\ lib.pc = "Publishing"

\* the commands that keep the default handle_error
DefaultHandleError == {"Noop", "EventProducing", "Stateful"}

C26_Decides ==
  /\ revision = "query" /\ ~LibPublished => lib'.handle_error = lib.handle_error
  /\ LibPublished
     => LET r == EventStoreImpl_publish(lib.store, lib.events, lib.version).result
            n == Len(lib.handle_error)
        IN  /\ lib'.publishes = lib.publishes + 1
            /\ r.ok => lib'.handle_error = lib.handle_error
            /\ ~r.ok
               => /\ Len(lib'.handle_error) = n + 1
                  /\ SubSeq(lib'.handle_error, 1, n) = lib.handle_error
                  /\ lib'.handle_error[n + 1].error = r.error
                  /\ lib'.handle_error[n + 1].failure_context = lib.failure_context
                  /\ lib'.handle_error[n + 1].answer
                       = lib_handle_error(lib.command, r.error, lib.failure_context)
                  /\ LET answer == lib'.handle_error[n + 1].answer
                     IN  /\ answer.ok /\ IsSome(answer.context)
                            => lib'.pc = "Start" /\ lib'.result = NotStarted
                         /\ answer.ok /\ answer.context = None
                            => lib'.pc = "Done" /\ lib'.result = Err(r.error)
                         /\ ~answer.ok => lib'.pc = "Done" /\ lib'.result = answer

\* a round begun after a failed publish builds the state, handles and publishes
C26_Round ==
  revision = "query" /\ lib.rounds >= 1 /\ lib'.pc # lib.pc
  => \/ lib.pc = "Start" /\ lib'.pc \in {"Handling", "Done"} /\ lib'.rounds = lib.rounds + 1
     \/ lib.pc = "Handling" /\ lib'.pc \in {"Publishing", "Done"}
     \/ lib.pc = "Publishing" /\ lib'.pc \in {"Start", "Done"}

C26_Default ==
  revision = "query" /\ lib.command.kind \in DefaultHandleError /\ lib.handle_error # <<>>
  => /\ lib.pc = "Done"
     /\ lib.publishes = 1
     /\ Len(lib.handle_error) = 1
     /\ lib.result = Err(lib.handle_error[1].error)
     /\ lib.store.events = lib.given.store

C26_HandleErrorDecides == [][C26_Decides /\ C26_Round /\ C26_Default']_vars

\* C26's case: the store failed the one publish of a command with the default
\* handle_error and execute returned the storage error, the store as it was
C26_Witness ==
  /\ revision = "query"
  /\ lib.command.kind = "EventProducing"
  /\ lib.pc = "Done"
  /\ lib.publishes = 1
  /\ Len(lib.handle_error) = 1
  /\ lib.result = Err(StorageErrorOther("Failed to store events"))
  /\ Len(lib.given.store) = 2
  /\ lib.store.events = lib.given.store

(***************************************************************************)
(* C27.  Recovery records the events exactly once: when publish fails k    *)
(* times, k >= 1, and then succeeds while handle_error asks to go on,      *)
(* execute returns success and the store holds what it held before         *)
(* followed by exactly one batch, the events of the last handle call; a    *)
(* failed attempt stores nothing and no batch is stored twice.             *)
(***************************************************************************)
C27_RecoveryOnce ==
  revision = "query"
  => /\ lib.result # Ok => lib.store.events = lib.given.store
     /\ lib.result = Ok
        => /\ lib.pc = "Done"
           /\ lib.publishes = Len(lib.handle_error) + 1
           /\ SubSeq(lib.store.events, 1, Len(lib.given.store)) = lib.given.store
           /\ EventsOf(lib.store.events) = EventsOf(lib.given.store) \o lib.events
           /\ lib.events = lib_handle(lib.command, lib.state).events
           /\ \A i \in 1..Len(lib.handle_error) :
                /\ lib.handle_error[i].answer.ok
                /\ IsSome(lib.handle_error[i].answer.context)

\* C27's case: three publishes failed, the fourth was stored, and the store
\* holds its two earlier events and one CommandRecovered
C27_Witness ==
  /\ revision = "query"
  /\ lib.command = [kind |-> "Counting", id |-> MaxFailures]
  /\ lib.pc = "Done"
  /\ lib.result = Ok
  /\ lib.publishes = 4
  /\ Len(lib.handle_error) = 3
  /\ Len(lib.given.store) = 2
  /\ EventsOf(lib.store.events) = EventsOf(lib.given.store) \o <<CommandRecovered>>

(***************************************************************************)
(* C30.  Failure-context threading in lib.rs's execute: the context handed *)
(* to the first handle_error call is the caller's, and the context handed  *)
(* to the n-th call, n > 1, is the one the (n-1)-th call returned; a       *)
(* context is never reset and never handed twice.                          *)
(***************************************************************************)
C30_ContextThreading ==
  revision = "query"
  => /\ \A n \in 1..Len(lib.handle_error) :
          lib.handle_error[n].failure_context
            = (IF n = 1 THEN lib.given.failure_context
               ELSE lib.handle_error[n - 1].answer.context)
     /\ \A n \in 2..Len(lib.handle_error) :
          /\ lib.handle_error[n - 1].answer.ok
          /\ IsSome(lib.handle_error[n - 1].answer.context)
     /\ lib.pc # "Done"
        => lib.failure_context
             = (IF lib.handle_error = <<>> THEN lib.given.failure_context
                ELSE lib.handle_error[Len(lib.handle_error)].answer.context)

\* C30's case: the third handle_error call was handed the context the second
\* returned, which is not the caller's and not the first call's
C30_Witness ==
  /\ revision = "query"
  /\ lib.command = [kind |-> "Counting", id |-> MaxFailures]
  /\ lib.given.failure_context = Some(0)
  /\ Len(lib.handle_error) = 3
  /\ lib.handle_error[2].answer.context = Some(2)
  /\ lib.handle_error[3].failure_context = Some(2)

(***************************************************************************)
(* C28.  Success under bounded contention: an invocation of which at most  *)
(* max_retries publishes were rejected with VersionMismatch, each after an *)
(* append by someone else, against a store that is otherwise healthy, ends *)
(* in success and not in MaxRetriesExceeded, and its events are in the     *)
(* stream exactly once, behind all the appends that caused the conflicts.  *)
(* As stated it fails for a command whose handle fails or whose events     *)
(* cannot be encoded; C28_BoundedContention is the statement for the       *)
(* invocations whose handle succeeds on every attempt and whose events can *)
(* be encoded.                                                             *)
(***************************************************************************)
\* the publishes of p that were rejected with VersionMismatch
Rejections(p) ==
  Cardinality({i \in 1..Len(pubLog[p]) : pubLog[p][i].answer = "WrongExpectedVersion"})

\* p has ended and no call to the store ended in a fault of the store
EndedHealthy(p) ==
  /\ pc[p] = "Done"
  /\ \A i \in 1..Len(pubLog[p]) :
       pubLog[p][i].answer \in {"Ok", "WrongExpectedVersion", "NotSent"}
  /\ result[p].ok
       \/ result[p].error.kind \in {"MaxRetriesExceeded", "CommandFailed",
                                    "EventDeserializationError"}

\* p ended in success, and the events of its last handle call were appended by
\* one publish, the last, behind what the stream held at first and one append
\* at least for each rejected publish
SucceededOnce(p) ==
  /\ result[p] = Ok
  /\ events[p] # <<>>
     => /\ pubLog[p] # <<>>
        /\ \A i \in 1..Len(pubLog[p]) : pubLog[p][i].answer = "Ok" <=> i = Len(pubLog[p])
        /\ Rejections(p) >= 1 => IsSome(pubLog[p][Len(pubLog[p])].expected)
        /\ \E start \in 0..Len(stream) :
             /\ IsSome(pubLog[p][Len(pubLog[p])].expected)
                => start = Unwrap(pubLog[p][Len(pubLog[p])].expected) + 1
             /\ start >= Len(H0[p]) + Rejections(p)
             /\ start + Len(events[p]) <= Len(stream)
             /\ SubSeq(stream, start + 1, start + Len(events[p])) = Payloads(events[p])

Appenders == {p \in Procs : PublishCalled(p)}

C29_OneAppendPerVersion ==
  /\ IsPrefix(stream, stream')
  /\ stream' # stream
     => \/ /\ writes' = writes + 1
           /\ Appenders = {}
           /\ Len(stream') = Len(stream) + 1
        \/ /\ writes' = writes
           /\ \E p \in Procs :
                /\ Appenders = {p}
                /\ stream' = stream \o Payloads(events[p])

\* q began after p's append and nobody else has appended since
RanAgain(p, q) ==
  /\ p # q
  /\ pc[p] = "Cancelled"
  /\ command[q].kind = command[p].kind
  /\ attempts[q] >= 1
  /\ foreign[q] = <<>>
  /\ writes = 0

C29_SecondRun ==
  \A p \in Procs, q \in Procs :
    RanAgain(p, q)
    => /\ H0[q] = H0[p] \o Payloads(events[p])
       /\ pc[q] = "Done" /\ pubLog[q] # <<>> /\ pubLog[q][Len(pubLog[q])].answer = "Ok"
          => /\ result[q] = Ok
             /\ Len(pubLog[q]) = 1
             /\ stream = H0[p] \o Payloads(events[p]) \o Payloads(events[q])

C29_NoDeduplication == [][C29_OneAppendPerVersion /\ C29_SecondRun']_vars

\* C29's case: the first invocation was cancelled after its append, the same
\* command was executed again and succeeded, and the two events of the command
\* are in the stream twice
C29_Witness ==
  /\ pc[1] = "Cancelled"
  /\ RanAgain(1, 2)
  /\ pc[2] = "Done"
  /\ result[2] = Ok
  /\ H0[1] = <<>>
  /\ Len(stream) = 4
  /\ SubSeq(stream, 1, 2) = SubSeq(stream, 3, 4)
  /\ SubSeq(stream, 3, 4) = Payloads(events[2])

(***************************************************************************)
(* C31.  Commands without a stream query never read: when                  *)
(* event_stream_query() is None, execute of lib.rs calls read_stream on no *)
(* attempt, handle is given State::default(), and publish is called with   *)
(* the empty map of expected versions.                                     *)
(***************************************************************************)
C31_NoQueryNoRead ==
  revision = "query" /\ lib_event_stream_query(lib.command) = None
  => /\ lib.reads = 0
     /\ lib.result # Panicked
     /\ lib.consumed = <<>>
     /\ lib.pc \in {"Handling", "Publishing"}
        => /\ lib.state = lib_State_default(lib.command)
           /\ lib.version = AggregateStreamVersions_new
           /\ DOMAIN lib.version = {}
     /\ lib.publishes >= 1 => lib.version = AggregateStreamVersions_new

\* C31's case: a command without a query went round the loop twice over a
\* store that holds events and expects a query, and no read was made
C31_Witness ==
  /\ revision = "query"
  /\ lib.command.kind = "Recovering"
  /\ lib.store.expected_stream_query # None
  /\ Len(lib.given.store) = 2
  /\ lib.rounds = 2
  /\ lib.publishes = 2
  /\ lib.reads = 0
  /\ lib.result = Ok

(***************************************************************************)
(* C32.  Command::apply is a pure step: apply(event) returns a command     *)
(* whose state is get_state().apply(event) and leaves the receiver as it   *)
(* was.  Threading the returned commands through the events e1..en of a    *)
(* read gives the state fold(apply, initial, [e1..en]), initial being the  *)
(* state the command had before the read; discarding the returned          *)
(* commands leaves the state at initial.                                   *)
(***************************************************************************)
\* the receiver after apply was called on it with each event, the returned
\* commands discarded
RECURSIVE ApplyDiscarding(_, _)
ApplyDiscarding(self, evs) ==
  IF evs = <<>> THEN self
  ELSE ApplyDiscarding(Command_apply_self(self, Head(evs)), Tail(evs))

\* this step is the drain of p's read
Drained(p) == pc[p] = "Folding" /\ pc'[p] # "Folding"

C32_Drain ==
  \A p \in Running :
    Drained(p)
    => LET evs == EventsOf(readLog'[p])
           initial == Command_get_state(command[p])
       IN  /\ Command_get_state(command'[p]) = Fold(command[p].kind, initial, evs)
           /\ command'[p].kind = command[p].kind
           /\ Command_get_state(ApplyDiscarding(command[p], evs)) = initial
           /\ \A i \in 1..Len(evs) :
                LET before == [command[p] EXCEPT
                                 !.state = Fold(command[p].kind, initial, SubSeq(evs, 1, i - 1))]
                    after == Command_apply(before, evs[i])
                IN  /\ Command_get_state(after)
                         = AggregateState_apply(before.kind, Command_get_state(before), evs[i])
                    /\ after.kind = before.kind
                    /\ Command_apply_self(before, evs[i]) = before

C32_ApplyIsPure == [][C32_Drain]_vars

\* C32's case: a command that counts what it applies had counted two events,
\* read three on its retry and now counts five
C32_Witness ==
  \E p \in Running :
    /\ command[p].kind = "Tally"
    /\ attempts[p] = 2
    /\ pc[p] = "Handling"
    /\ Len(readLog[p]) = 3
    /\ Command_get_state(command[p]).count = 5

(***************************************************************************)
(* C33.  Builder frame: a successful with_base_delay changes base_delay_ms *)
(* only (max_delay_ms and max_retries keep their values), a successful     *)
(* with_max_delay changes max_delay_ms only, and a successful              *)
(* with_max_retries changes max_retries only.                              *)
(***************************************************************************)
\* the three values of a config, read through its getters
Fields(config) ==
  [max_retries |-> ExecuteConfig_max_retries(config),
   base_delay_ms |-> RetryDelay_base_delay_ms(ExecuteConfig_retry_delay(config)),
   max_delay_ms |-> RetryDelay_max_delay_ms(ExecuteConfig_retry_delay(config))]

\* the value a with_ call sets
Sets(op) ==
  CASE op = "with_max_retries" -> "max_retries"
    [] op = "with_base_delay" -> "base_delay_ms"
    [] op = "with_max_delay" -> "max_delay_ms"

C33_BuilderFrame ==
  revision = "config" /\ lib.calls >= 1 /\ lib.result.ok
  => /\ \A f \in DOMAIN Fields(cfg) :
          f # Sets(lib.op) => Fields(cfg)[f] = Fields(lib.before)[f]
     /\ Fields(cfg)[Sets(lib.op)] = lib.arg

\* C33's case: with_max_delay(1000) succeeded on a config whose base delay and
\* max_retries were not the defaults, and both are as they were
C33_Witness ==
  /\ revision = "config"
  /\ lib.op = "with_max_delay"
  /\ lib.arg = 1000
  /\ lib.result.ok
  /\ Fields(lib.before) = [max_retries |-> 5, base_delay_ms |-> 200, max_delay_ms |-> 30000]
  /\ Fields(cfg) = [max_retries |-> 5, base_delay_ms |-> 200, max_delay_ms |-> 1000]

(***************************************************************************)
(* C34: the jitter is deterministic.  The generator is one per thread and  *)
(* made from a fixed seed: the delays a thread gets are those it would get *)
(* if it made its calls (same base, cap and retry counts) with no other    *)
(* thread running, so two fresh threads that make the same calls get the   *)
(* same delays, and the calls of one thread never change the delays of     *)
(* another.                                                                *)
(***************************************************************************)
RECURSIVE Alone(_, _, _, _)
\* the results of the calls made one after the other on a generator no other
\* caller draws from
Alone(calls, rng, generator, overflow_checks) ==
  IF calls = <<>>
    THEN <<>>
    ELSE LET r == calculate_delay(Head(calls).retry_delay, Head(calls).retry_count,
                                  overflow_checks, generator[rng.draws])
         IN  <<r>> \o Alone(Tail(calls), IF r.panic THEN rng ELSE SmallRng_next(rng),
                            generator, overflow_checks)

\* the calls of a thread that drew a value
Drawn(t) == {i \in 1..Len(lib.delays[t]) : ~lib.delays[t][i].panic}

\* C34: every thread's delays are those of its own calls on a generator seeded
\* 0 that no other thread draws from; threads whose first n calls are the same
\* got the same first n delays; a thread's generator has drawn once per call of
\* that thread that did not panic
C34_DeterministicJitter ==
  revision = "threads"
  => /\ \A t \in Threads :
          /\ lib.delays[t] = Alone(lib.calls[t], SmallRng_seed_from_u64(0), lib.generator,
                                   lib.overflow_checks)
          /\ IsSome(lib.cells[t]) <=> Drawn(t) # {}
          /\ IsSome(lib.cells[t])
             => Unwrap(lib.cells[t]) = [seed |-> 0, draws |-> Cardinality(Drawn(t))]
     /\ \A t, u \in Threads : \A n \in 0..MaxDraws :
          /\ n <= Len(lib.calls[t])
          /\ n <= Len(lib.calls[u])
          /\ SubSeq(lib.calls[t], 1, n) = SubSeq(lib.calls[u], 1, n)
          => SubSeq(lib.delays[t], 1, n) = SubSeq(lib.delays[u], 1, n)

\* both threads made the same two calls, the generator's first two values
\* differ, and both got 100 ms and then 200 ms
C34_Witness ==
  /\ revision = "threads"
  /\ lib.calls[1] = lib.calls[2]
  /\ Len(lib.calls[1]) = 2
  /\ lib.generator[0] = "middle"
  /\ lib.generator[1] = "greatest"
  /\ \A t \in Threads : /\ lib.delays[t][1].delay = 100
                        /\ lib.delays[t][2].delay = 200

(***************************************************************************)
(* C35: the versions of the in-memory test store.  Starting from an empty  *)
(* store or from a preloaded history whose versions are its positions,     *)
(* after the publishes that succeeded every stored envelope's              *)
(* stream_version is its zero-based position in the store.                 *)
(***************************************************************************)
\* every envelope's stream_version is its zero-based position
Positional(envelopes) ==
  \A i \in 1..Len(envelopes) : envelopes[i].stream_version = EventStreamVersion_new(i - 1)

\* C35: a test store that started empty or with a history numbered by position
\* holds, whatever was published to it, envelopes numbered by position
C35_StoreVersionsArePositions ==
  revision = "query" /\ Positional(lib.given.store) => Positional(lib.store.events)

====
